---- MODULE Spec2Model ----
(***************************************************************************)
(* Storage Portability Layer of FocusFlow: the migration runner            *)
(* (scripts/migrate.ts), and the three D1-compatible adapters              *)
(* (src/server/adapters/{database,mysql,postgres}.ts).                     *)
(*                                                                         *)
(* File names are modelled as sequences of one-character strings so that   *)
(* the runner's name filters, its regular expression and parseInt are      *)
(* computed rather than assumed.                                           *)
(***************************************************************************)
EXTENDS Integers, Sequences, FiniteSets, TLC

VARIABLES
    env,            \* process.env: DB_TYPE and DATABASE_URL
    directory,      \* readdirSync(migrationsDir): the set of file names
    mode,           \* "sequential": run 2 starts after run 1 ended; "concurrent"
    tableExists,    \* the _migrations table exists in the database
    table,          \* rows of _migrations, in insert order (migration_number)
    schema,         \* objects of the application schema: <<kind, name>>
    seedRows,       \* number of rows written by the INSERT statements of migrations
    pc,             \* position of each runner process in the script
    files,          \* migrationFiles of each runner
    appliedNumbers, \* the Set loaded once before the loop, per runner
    idx,            \* loop position in migrationFiles, per runner
    stmtIdx,        \* position in the statements of the current migration
    executed,       \* history: <<runner, file, statement index, engine outcome>>
    inserted,       \* history: <<runner, migration number>> of successful inserts
    errorAt,        \* history: the error that ended each run, or NoError
    snap,           \* history: the database as run 2 found it when it started
    faults,         \* number of engine/pool faults injected so far
    initial,        \* history: the database before the first run
    batch,          \* Database.batch: the statements of the call
    bstate,         \* per batch statement: "queued", "dispatched", "running", "finished", "failed"
    bpc,            \* position of the batch caller
    blog,           \* history: engine events of the batch, in order
    call,           \* one adapter call: adapter, method, bound, colName, engine reply
    outcome,        \* what the call gave its caller, or NoOutcome
    bindAdapter,    \* the adapter whose statements are bound
    tz,             \* time zone of the server process: minutes east of UTC
    stmts,          \* the statement objects made by prepare and bind, in creation order
    aborted,        \* history: <<statement, values>> of the bind calls that threw
    runAdapter,     \* the adapter on which run() and all() are called
    items,          \* rows of a table with an auto-increment id: id -> title
    autoIncrement,  \* the id the engine gives to the next inserted row
    lastInsertRowid,\* SQLite: sqlite3_last_insert_rowid() of the connection
    envelopes,      \* history: the calls made and the envelopes they returned
    migration,      \* the migration file whose content is translated
    sql,            \* let sql: the content of the file, as the tokens of its text
    translated,     \* the dialect translation of sql has been done
    objects,        \* names of the tables, indexes and added columns of the database
    position,       \* number of statements of sql the current run has dealt with
    failure,        \* the error that ended the current run of the file, "" if none
    recorded,       \* the row of the file is in _migrations
    reruns,         \* number of times the runner was started again
    execAdapter,    \* the adapter on which exec is called
    pool,           \* mysql2 pool: the number of connections checked out
    calls,          \* exec calls, in call order: query, position, connection, outcome
    applied,        \* history: the statements the engine has applied, in order
    config,         \* process.env of the server and of the runner: the five variables
    serverDb,       \* the adapter of the server process, "" before getEnv
    runnerDb,       \* the adapter of the migration runner, "" before it is constructed
    ddlDialect,     \* the dialect of the CREATE TABLE _migrations that the runner sent
    sqlDialect      \* the dialect into which the runner translated a migration file

runnerVars == <<env, directory, mode, tableExists, table, schema, seedRows, pc, files,
                appliedNumbers, idx, stmtIdx, executed, inserted, errorAt, snap, faults,
                initial>>
batchVars == <<batch, bstate, bpc, blog>>
callVars == <<call, outcome>>
bindVars == <<bindAdapter, tz, stmts, aborted>>
runVars == <<runAdapter, items, autoIncrement, lastInsertRowid, envelopes>>
translateVars == <<migration, sql, translated>>
applyVars == <<objects, position, failure, recorded, reruns>>
execVars == <<execAdapter, pool, calls, applied>>
selectVars == <<config, serverDb, runnerDb, ddlDialect, sqlDialect>>
vars == <<runnerVars, batchVars, callVars, bindVars, runVars, translateVars, applyVars,
          execVars, selectVars>>

(***************************************************************************)
(* Bounds of the model.                                                    *)
(***************************************************************************)
MaxFaults == 1      \* injected engine/pool faults per behaviour
MaxBatch == 3       \* statements in one batch call
MaxRows == 2        \* rows in an engine reply
MaxBinds == 2       \* bind calls on the statements of one prepare
MaxCalls == 3       \* run() and all() calls on one database

Runners == {1, 2}

(***************************************************************************)
(* File names.                                                             *)
(***************************************************************************)
Digits == {"0", "1", "2", "3", "4", "5", "6", "7", "8", "9"}

\* ASCII order of the characters that occur in the file names
Alphabet == <<".", "0", "1", "2", "3", "4", "5", "6", "7", "8", "9",
              "a", "b", "d", "k", "l", "n", "o", "q", "s", "v", "w">>

CharCode(c) == CHOOSE i \in DOMAIN Alphabet : Alphabet[i] = c

DigitVal(c) == CharCode(c) - 2

DotSql == <<".", "s", "q", "l">>
Down == <<"d", "o", "w", "n">>

File_1 == <<"1">> \o DotSql
File_2 == <<"2">> \o DotSql
File_10 == <<"1", "0">> \o DotSql
File_2down == <<"2", "."  >> \o Down \o DotSql
File_v3 == <<"v", "3">> \o DotSql
File_2bak == <<"2">> \o DotSql \o <<".", "b", "a", "k">>

FilePool == {File_1, File_2, File_10, File_2down, File_v3, File_2bak}

\* String.prototype.endsWith
EndsWith(s, suf) ==
    /\ Len(s) >= Len(suf)
    /\ SubSeq(s, Len(s) - Len(suf) + 1, Len(s)) = suf

\* String.prototype.includes
Includes(s, sub) ==
    \E i \in 1..(Len(s) - Len(sub) + 1) : SubSeq(s, i, i + Len(sub) - 1) = sub

\* file.match(/^(\d+)\.sql$/): the match succeeds
MatchesNumberSql(s) ==
    /\ EndsWith(s, DotSql)
    /\ Len(s) > Len(DotSql)
    /\ \A i \in 1..(Len(s) - Len(DotSql)) : s[i] \in Digits

\* match[1] of that regular expression
NumberPart(s) == SubSeq(s, 1, Len(s) - Len(DotSql))

\* parseInt(digits, 10)
RECURSIVE ParseInt(_)
ParseInt(ds) ==
    IF ds = <<>> THEN 0
    ELSE ParseInt(SubSeq(ds, 1, Len(ds) - 1)) * 10 + DigitVal(ds[Len(ds)])

\* the filter / map / filter chain of the discovery
Discovered(dir) ==
    { [number |-> ParseInt(NumberPart(f)), file |-> f] :
        f \in { g \in dir : /\ EndsWith(g, DotSql)
                            /\ ~Includes(g, Down)
                            /\ MatchesNumberSql(g) } }

\* .sort((a, b) => a.number - b.number)
RECURSIVE SortByNumber(_)
SortByNumber(S) ==
    IF S = {} THEN <<>>
    ELSE LET m == CHOOSE x \in S : \A y \in S : x.number <= y.number
         IN <<m>> \o SortByNumber(S \ {m})

\* string comparison by code units, as the default Array.prototype.sort does
RECURSIVE LexLeq(_, _)
LexLeq(a, b) ==
    IF a = <<>> THEN TRUE
    ELSE IF b = <<>> THEN FALSE
    ELSE IF a[1] = b[1] THEN LexLeq(Tail(a), Tail(b))
    ELSE CharCode(a[1]) < CharCode(b[1])

RECURSIVE SortByName(_)
SortByName(S) ==
    IF S = {} THEN <<>>
    ELSE LET m == CHOOSE x \in S : \A y \in S : LexLeq(x.file, y.file)
         IN <<m>> \o SortByName(S \ {m})

migrationFilesByName(dir) == SortByName(Discovered(dir))

\* const migrationFiles = readdirSync(...).filter(...).map(...).filter(...).sort(...)
migrationFiles(dir) == SortByNumber(Discovered(dir))

(***************************************************************************)
(* Configuration and adapter selection.                                    *)
(***************************************************************************)
Envs == [DB_TYPE : {"mysql", ""}, DATABASE_URL : {"", "postgres://db"}]

SelectAdapter(e) ==
    IF e.DB_TYPE = "mysql" THEN "mysql"
    ELSE IF e.DATABASE_URL # "" THEN "postgres"
    ELSE "sqlite"

isMySQL(e) == e.DB_TYPE = "mysql"
isPostgres(e) == e.DATABASE_URL # ""

(***************************************************************************)
(* Migration statements.  A statement is what the runner's regular         *)
(* expressions and the engine can tell apart: its kind, the object it      *)
(* names, whether it carries IF NOT EXISTS, whether the column name is     *)
(* back-quoted.                                                            *)
(***************************************************************************)
Stmt(k, t, n) == [kind |-> k, table |-> t, name |-> n, ifNotExists |-> FALSE, quoted |-> FALSE]

\* readFileSync(migration.path, 'utf-8'), split into its statements
MigrationSQL(file) ==
    IF file = File_1 THEN
        << Stmt("CREATE_TABLE", "tasks", "tasks"),
           Stmt("CREATE_INDEX", "tasks", "idx_tasks_user") >>
    ELSE IF file = File_2 THEN
        << Stmt("ADD_COLUMN", "tasks", "priority"),
           Stmt("INSERT", "tasks", "seed") >>
    ELSE IF file = File_10 THEN
        << Stmt("CREATE_INDEX", "tasks", "idx_tasks_due"),
           Stmt("ADD_COLUMN", "tasks", "repeat") >>
    ELSE
        << Stmt("DROP_TABLE", "tasks", "tasks") >>

reservedKeywords ==
    {"repeat", "order", "group", "select", "insert", "update", "delete", "create", "drop",
     "alter", "table", "index", "key", "primary", "foreign", "references", "constraint",
     "default", "null", "not", "unique", "check", "auto_increment", "timestamp", "datetime",
     "date", "time", "year", "text", "varchar", "char", "int", "integer", "bigint", "smallint",
     "tinyint", "decimal", "float", "double", "real", "boolean", "bool", "blob", "binary",
     "varbinary", "enum", "set", "json"}

\* the rewrites of the translator that change how a statement is classified
\* by the runner or answered by the engine
TranslateStmt(e, s) ==
    IF ~(isMySQL(e) \/ isPostgres(e)) THEN s
    ELSE IF s.kind = "CREATE_TABLE" THEN [s EXCEPT !.ifNotExists = TRUE]
    ELSE IF s.kind = "CREATE_INDEX" THEN
        IF isMySQL(e) THEN s ELSE [s EXCEPT !.ifNotExists = TRUE]
    ELSE IF s.kind = "ADD_COLUMN" THEN
        IF isMySQL(e) /\ s.name \in reservedKeywords THEN [s EXCEPT !.quoted = TRUE] ELSE s
    ELSE s

Translate(e, ss) == [i \in DOMAIN ss |-> TranslateStmt(e, ss[i])]

\* statement.match(/CREATE\s+INDEX\s+(\w+)\s+ON/i)
indexMatch(s) == s.kind = "CREATE_INDEX"

\* statement.match(/ALTER\s+TABLE\s+(\w+)\s+ADD\s+COLUMN\s+(\w+)/i): \w does not
\* match a back-quote
alterTableMatch(s) == s.kind = "ADD_COLUMN" /\ ~s.quoted

ToleratedAny(e, s, o) == o # "ok"

\* the runner's statement dispatch: which engine errors it catches and skips
Tolerated(e, s, o) ==
    /\ isMySQL(e)
    /\ IF indexMatch(s) THEN o = "dup_index"
       ELSE IF alterTableMatch(s) THEN o = "dup_column"
       ELSE FALSE

(***************************************************************************)
(* The engine behind connection.execute / pool.query / stmt.run.           *)
(***************************************************************************)
Obj(k, n) == <<k, n>>

\* the engine's answer to one statement: "ok", or the error it raises
EngineOutcome(s, sch) ==
    IF s.kind = "CREATE_TABLE" THEN
        IF Obj("table", s.name) \in sch /\ ~s.ifNotExists THEN "error" ELSE "ok"
    ELSE IF Obj("table", s.table) \notin sch THEN "error"
    ELSE IF s.kind = "CREATE_INDEX" THEN
        IF Obj("index", s.name) \in sch /\ ~s.ifNotExists THEN "dup_index" ELSE "ok"
    ELSE IF s.kind = "ADD_COLUMN" THEN
        IF Obj("column", s.name) \in sch THEN "dup_column" ELSE "ok"
    ELSE "ok"

\* the schema after the statement succeeded
EngineSchema(s, sch) ==
    IF s.kind = "CREATE_TABLE" THEN sch \cup {Obj("table", s.name)}
    ELSE IF s.kind = "CREATE_INDEX" THEN sch \cup {Obj("index", s.name)}
    ELSE IF s.kind = "ADD_COLUMN" THEN sch \cup {Obj("column", s.name)}
    ELSE IF s.kind = "DROP_TABLE" THEN {}
    ELSE sch

Range(f) == {f[i] : i \in DOMAIN f}

UniqueNotEnforced(tbl, n) == FALSE

\* migration_number INTEGER UNIQUE NOT NULL: the insert of n is rejected
UniqueViolation(tbl, n) == n \in Range(tbl)

appliedNumbersNone(tbl) == {}

\* new Set(appliedMigrations.map(m => m.migration_number))
appliedNumbersOf(tbl) == Range(tbl)

(***************************************************************************)
(* The migration runner.  Every await of the script is a step: another     *)
(* runner process may act on the same database between two steps.          *)
(***************************************************************************)
NoError == [file |-> <<>>, phase |-> "none", cause |-> "none"]
NoSnap == [taken |-> FALSE, table |-> <<>>, schema |-> {}, seedRows |-> 0]

\* a fresh database; a database on which migration 1 was applied by an earlier
\* run and a column of a pending migration was then created by hand
Fresh == [table |-> <<>>, schema |-> {}]
ManualPriority ==
    [table |-> <<1>>,
     schema |-> {Obj("table", "tasks"), Obj("index", "idx_tasks_user"), Obj("column", "priority")}]
ManualRepeat ==
    [table |-> <<1>>,
     schema |-> {Obj("table", "tasks"), Obj("index", "idx_tasks_user"), Obj("column", "repeat")}]
InitialDatabases == {Fresh, ManualPriority, ManualRepeat}

current(r) == files[r][idx[r]]
statements(r) == Translate(env, MigrationSQL(current(r).file))

CanFault == faults < MaxFaults

RunnerInit(m, dirs) ==
    /\ env \in Envs
    /\ directory \in dirs
    /\ mode = m
    /\ initial \in InitialDatabases
    /\ tableExists = (initial.table # <<>>)
    /\ table = initial.table
    /\ schema = initial.schema
    /\ seedRows = 0
    /\ pc = [r \in Runners |-> "idle"]
    /\ files = [r \in Runners |-> <<>>]
    /\ appliedNumbers = [r \in Runners |-> {}]
    /\ idx = [r \in Runners |-> 1]
    /\ stmtIdx = [r \in Runners |-> 1]
    /\ executed = {}
    /\ inserted = {}
    /\ errorAt = [r \in Runners |-> NoError]
    /\ snap = NoSnap
    /\ faults = 0

\* .catch((error) => { ...; process.exit(1) }) for an error outside the loop
Exit(r, phase, cause) ==
    /\ pc' = [pc EXCEPT ![r] = "failed"]
    /\ errorAt' = [errorAt EXCEPT ![r] = [file |-> <<>>, phase |-> phase, cause |-> cause]]

MigrationCatchContinue(r, phase, cause) ==
    /\ pc' = [pc EXCEPT ![r] = "loop"]
    /\ idx' = [idx EXCEPT ![r] = idx[r] + 1]
    /\ errorAt' = [errorAt EXCEPT ![r] = [file |-> current(r).file, phase |-> phase, cause |-> cause]]

\* catch (error) { console.error(...); throw error; } and the process.exit(1)
\* it reaches
MigrationCatch(r, phase, cause) ==
    /\ pc' = [pc EXCEPT ![r] = "failed"]
    /\ idx' = idx
    /\ errorAt' = [errorAt EXCEPT ![r] = [file |-> current(r).file, phase |-> phase, cause |-> cause]]

\* the script starts: adapter construction and file discovery
Start(r) ==
    /\ pc[r] = "idle"
    /\ mode = "sequential" => (r = 1 \/ pc[1] \in {"done", "failed"})
    /\ pc' = [pc EXCEPT ![r] = "ensure"]
    /\ files' = [files EXCEPT ![r] = migrationFiles(directory)]
    /\ snap' = IF r = 2 /\ mode = "sequential"
               THEN [taken |-> TRUE, table |-> table, schema |-> schema, seedRows |-> seedRows]
               ELSE snap
    /\ UNCHANGED <<env, directory, mode, tableExists, table, schema, seedRows,
                   appliedNumbers, idx, stmtIdx, executed, inserted, errorAt,
                   faults, initial>>
    /\ UNCHANGED <<batchVars, callVars, bindVars, runVars, translateVars, applyVars, execVars,
                   selectVars>>

\* await db.exec(`CREATE TABLE IF NOT EXISTS _migrations (...)`)
EnsureTable(r) ==
    /\ pc[r] = "ensure"
    /\ \/ /\ tableExists' = TRUE
          /\ pc' = [pc EXCEPT ![r] = "load"]
          /\ UNCHANGED <<errorAt, faults>>
       \/ /\ CanFault
          /\ faults' = faults + 1
          /\ Exit(r, "ensure", "error")
          /\ UNCHANGED tableExists
    /\ UNCHANGED <<env, directory, mode, table, schema, seedRows, files,
                   appliedNumbers, idx, stmtIdx, executed, inserted, snap, initial>>
    /\ UNCHANGED <<batchVars, callVars, bindVars, runVars, translateVars, applyVars, execVars,
                   selectVars>>

\* const appliedNumbers = new Set(... SELECT migration_number FROM _migrations ...)
LoadApplied(r) ==
    /\ pc[r] = "load"
    /\ \/ /\ appliedNumbers' = [appliedNumbers EXCEPT ![r] = appliedNumbersOf(table)]
          /\ pc' = [pc EXCEPT ![r] = "loop"]
          /\ idx' = [idx EXCEPT ![r] = 1]
          /\ UNCHANGED <<errorAt, faults>>
       \/ /\ CanFault
          /\ faults' = faults + 1
          /\ Exit(r, "load", "error")
          /\ UNCHANGED <<appliedNumbers, idx>>
    /\ UNCHANGED <<env, directory, mode, tableExists, table, schema, seedRows, files,
                   stmtIdx, executed, inserted, snap, initial>>
    /\ UNCHANGED <<batchVars, callVars, bindVars, runVars, translateVars, applyVars, execVars,
                   selectVars>>

\* if (appliedNumbers.has(migration.number)) { ...; continue; }
SkipApplied(r) ==
    /\ pc[r] = "loop"
    /\ idx[r] <= Len(files[r])
    /\ current(r).number \in appliedNumbers[r]
    /\ idx' = [idx EXCEPT ![r] = idx[r] + 1]
    /\ UNCHANGED <<env, directory, mode, tableExists, table, schema, seedRows, pc, files,
                   appliedNumbers, stmtIdx, executed, inserted, errorAt, snap, faults,
                   initial>>
    /\ UNCHANGED <<batchVars, callVars, bindVars, runVars, translateVars, applyVars, execVars,
                   selectVars>>

\* a pending migration: read the file, translate it, split it into statements
BeginMigration(r) ==
    /\ pc[r] = "loop"
    /\ idx[r] <= Len(files[r])
    /\ current(r).number \notin appliedNumbers[r]
    /\ pc' = [pc EXCEPT ![r] = "exec"]
    /\ stmtIdx' = [stmtIdx EXCEPT ![r] = 1]
    /\ UNCHANGED <<env, directory, mode, tableExists, table, schema, seedRows, files,
                   appliedNumbers, idx, executed, inserted, errorAt, snap, faults,
                   initial>>
    /\ UNCHANGED <<batchVars, callVars, bindVars, runVars, translateVars, applyVars, execVars,
                   selectVars>>

\* one statement reaches the engine: through the MySQL statement dispatch, or
\* inside db.exec(sql) on PostgreSQL and SQLite; o is the engine's answer
ExecStatementWith(r, o) ==
    LET s == statements(r)[stmtIdx[r]]
        last == stmtIdx[r] = Len(statements(r))
    IN
    /\ executed' = executed \cup {<<r, current(r).file, stmtIdx[r], o>>}
    /\ IF o = "ok" \/ Tolerated(env, s, o)
       THEN /\ schema' = IF o = "ok" THEN EngineSchema(s, schema) ELSE schema
            /\ seedRows' = IF o = "ok" /\ s.kind = "INSERT" THEN seedRows + 1 ELSE seedRows
            /\ pc' = [pc EXCEPT ![r] = IF last THEN "record" ELSE "exec"]
            /\ stmtIdx' = [stmtIdx EXCEPT ![r] = stmtIdx[r] + 1]
            /\ UNCHANGED <<idx, errorAt>>
       ELSE /\ MigrationCatch(r, "exec", o)
            /\ UNCHANGED <<schema, seedRows, stmtIdx>>

ExecStatement(r) ==
    /\ pc[r] = "exec"
    /\ \/ /\ ExecStatementWith(r, EngineOutcome(statements(r)[stmtIdx[r]], schema))
          /\ UNCHANGED faults
       \/ /\ CanFault
          /\ faults' = faults + 1
          /\ ExecStatementWith(r, "error")
    /\ UNCHANGED <<env, directory, mode, tableExists, table, files, appliedNumbers,
                   inserted, snap, initial>>
    /\ UNCHANGED <<batchVars, callVars, bindVars, runVars, translateVars, applyVars, execVars,
                   selectVars>>

\* await db.prepare('INSERT INTO _migrations (migration_number) VALUES (?)')
\*   .bind(migration.number).run()
RecordMigration(r) ==
    /\ pc[r] = "record"
    /\ \/ /\ ~UniqueViolation(table, current(r).number)
          /\ table' = Append(table, current(r).number)
          /\ inserted' = inserted \cup {<<r, current(r).number>>}
          /\ pc' = [pc EXCEPT ![r] = "loop"]
          /\ idx' = [idx EXCEPT ![r] = idx[r] + 1]
          /\ UNCHANGED <<errorAt, faults>>
       \/ /\ UniqueViolation(table, current(r).number)
          /\ MigrationCatch(r, "record", "unique")
          /\ UNCHANGED <<table, inserted, faults>>
       \/ /\ CanFault
          /\ faults' = faults + 1
          /\ MigrationCatch(r, "record", "error")
          /\ UNCHANGED <<table, inserted>>
    /\ UNCHANGED <<env, directory, mode, tableExists, schema, seedRows, files,
                   appliedNumbers, stmtIdx, executed, snap, initial>>
    /\ UNCHANGED <<batchVars, callVars, bindVars, runVars, translateVars, applyVars, execVars,
                   selectVars>>

\* console.log('All migrations completed!'); await db.close();
Finish(r) ==
    /\ pc[r] = "loop"
    /\ idx[r] > Len(files[r])
    /\ pc' = [pc EXCEPT ![r] = "done"]
    /\ UNCHANGED <<env, directory, mode, tableExists, table, schema, seedRows, files,
                   appliedNumbers, idx, stmtIdx, executed, inserted, errorAt, snap, faults,
                   initial>>
    /\ UNCHANGED <<batchVars, callVars, bindVars, runVars, translateVars, applyVars, execVars,
                   selectVars>>

(***************************************************************************)
(* Database.batch.  Every adapter implements it as                          *)
(*     Promise.all(statements.map(stmt => stmt.all()))                      *)
(* On SQLite stmt.all() runs the statement to completion inside the call   *)
(* (better-sqlite3 is synchronous).  On MySQL and PostgreSQL stmt.all() is *)
(* async: the call hands the statement to the pool and returns a pending   *)
(* promise, so map() hands every statement to the pool before any answer   *)
(* arrives, and the pool runs them on separate connections.                *)
(***************************************************************************)
Adapters == {"sqlite", "mysql", "postgres"}

\* connectionLimit of the MySQL pool (the PostgreSQL pool is built with the
\* driver's default size, which is the same)
connectionLimit == 10

NoBatch == [adapter |-> "sqlite", fails |-> <<>>]

BatchInputs ==
    { [adapter |-> a, fails |-> f] :
        a \in Adapters, f \in UNION { [1..n -> BOOLEAN] : n \in 1..MaxBatch } }

BatchInit ==
    /\ batch \in BatchInputs
    /\ bstate = [i \in DOMAIN batch.fails |-> "queued"]
    /\ bpc = "called"
    /\ blog = <<>>

BatchParked ==
    /\ batch = NoBatch
    /\ bstate = <<>>
    /\ bpc = "parked"
    /\ blog = <<>>

\* the events of running statements 1..n one after the other, stopping at the
\* first that fails
RECURSIVE SyncEvents(_, _)
SyncEvents(fails, i) ==
    IF i > Len(fails) THEN <<>>
    ELSE <<(<<"start", i>>), (<<"end", i>>)>> \o
         (IF fails[i] THEN <<>> ELSE SyncEvents(fails, i + 1))

FirstFailure(fails) ==
    IF \E i \in DOMAIN fails : fails[i]
    THEN CHOOSE i \in DOMAIN fails : fails[i] /\ \A j \in 1..(i - 1) : ~fails[j]
    ELSE Len(fails) + 1

\* NodeD1Database.batch: map() runs each stmt.all() to completion in turn; a
\* statement that throws ends map() and the call
NodeBatch ==
    /\ batch.adapter = "sqlite"
    /\ blog' = SyncEvents(batch.fails, 1)
    /\ bstate' = [i \in DOMAIN bstate |->
                    IF i < FirstFailure(batch.fails) THEN "finished"
                    ELSE IF i = FirstFailure(batch.fails) THEN "failed"
                    ELSE "queued"]
    /\ bpc' = IF FirstFailure(batch.fails) <= Len(batch.fails) THEN "threw" ELSE "returned"

\* MysqlD1Database.batch / PostgresD1Database.batch: map() starts every
\* stmt.all(); each reaches its first await with the statement handed to the pool
PoolBatch ==
    /\ batch.adapter \in {"mysql", "postgres"}
    /\ bstate' = [i \in DOMAIN bstate |-> "dispatched"]
    /\ bpc' = "awaiting"
    /\ UNCHANGED blog

BatchMap ==
    /\ bpc = "called"
    /\ (NodeBatch \/ PoolBatch)
    /\ UNCHANGED <<batch, runnerVars, callVars, bindVars, runVars, translateVars,
                   applyVars, execVars, selectVars>>

Running == {i \in DOMAIN bstate : bstate[i] = "running"}

\* the pool gives statement i a free connection and the engine starts it
EngineStart(i) ==
    /\ bstate[i] = "dispatched"
    /\ Cardinality(Running) < connectionLimit
    /\ bstate' = [bstate EXCEPT ![i] = "running"]
    /\ blog' = Append(blog, <<"start", i>>)
    /\ UNCHANGED <<batch, bpc, runnerVars, callVars, bindVars, runVars, translateVars,
                   applyVars, execVars, selectVars>>

\* the engine finishes statement i
EngineEnd(i) ==
    /\ bstate[i] = "running"
    /\ bstate' = [bstate EXCEPT ![i] = IF batch.fails[i] THEN "failed" ELSE "finished"]
    /\ blog' = Append(blog, <<"end", i>>)
    /\ UNCHANGED <<batch, bpc, runnerVars, callVars, bindVars, runVars, translateVars,
                   applyVars, execVars, selectVars>>

\* Promise.all settles: rejected by the first failure, fulfilled when all are
BatchSettle ==
    /\ bpc = "awaiting"
    /\ \/ /\ \E i \in DOMAIN bstate : bstate[i] = "failed"
          /\ bpc' = "threw"
       \/ /\ \A i \in DOMAIN bstate : bstate[i] = "finished"
          /\ bpc' = "returned"
    /\ UNCHANGED <<batch, bstate, blog, runnerVars, callVars, bindVars, runVars,
                   translateVars, applyVars, execVars, selectVars>>

BatchNext ==
    \/ BatchMap
    \/ \E i \in DOMAIN bstate : EngineStart(i)
    \/ \E i \in DOMAIN bstate : EngineEnd(i)
    \/ BatchSettle

(***************************************************************************)
(* One call of an execution method.  JavaScript values are written as      *)
(* strings ("num:0", "str:x", "null") so that values of different types    *)
(* can be compared; a row maps its column names to values.                 *)
(***************************************************************************)
Null == "null"
Undefined == "undefined"

\* the ?? operator's test
Nullish(v) == v \in {Null, Undefined}

\* truthiness of a string or undefined, as in `colName && ...`
Truthy(v) == v \notin {Undefined, ""}

Methods == {"first", "run", "all", "raw", "exec"}
ColNames == {Undefined, "id", "title", "missing"}
RowValues == [id : {"num:0", "num:7"}, title : {Null, "str:", "str:x"}]
EngineErrors == {"syntax", "constraint", "timeout"}
NoRow == [id |-> Undefined, title |-> Undefined]

BoundedSeq(S, n) == UNION { [1..k -> S] : k \in 0..n }

\* what the driver gives back: rows, or the error it raises
Replies ==
    { [ok |-> TRUE, rows |-> rs, error |-> "none"] : rs \in BoundedSeq(RowValues, MaxRows) }
    \cup { [ok |-> FALSE, rows |-> <<>>, error |-> e] : e \in EngineErrors }

Calls ==
    [adapter : Adapters, method : Methods, bound : BOOLEAN, colName : ColNames,
     reply : Replies]

NoCall ==
    [adapter |-> "sqlite", method |-> "first", bound |-> FALSE, colName |-> Undefined,
     reply |-> [ok |-> TRUE, rows |-> <<>>, error |-> "none"]]

NoOutcome == [kind |-> "pending", row |-> NoRow, val |-> Undefined, error |-> "none"]
Throw(e) == [kind |-> "throw", row |-> NoRow, val |-> Undefined, error |-> e]
ReturnNull == [kind |-> "null", row |-> NoRow, val |-> Null, error |-> "none"]
ReturnRow(r) == [kind |-> "row", row |-> r, val |-> Undefined, error |-> "none"]
ReturnValue(v) == [kind |-> "value", row |-> NoRow, val |-> v, error |-> "none"]
ReturnEnvelope == [kind |-> "envelope", row |-> NoRow, val |-> Undefined, error |-> "none"]
ReturnRows == [kind |-> "rows", row |-> NoRow, val |-> Undefined, error |-> "none"]

\* row[colName]
Column(row, c) == IF c \in DOMAIN row THEN row[c] ELSE Undefined

FirstOfRowsOr(rows, c) ==
    IF rows = <<>> THEN ReturnNull
    ELSE IF Truthy(c)
         THEN IF Column(rows[1], c) \in {Null, Undefined, "num:0", "str:"}
              THEN ReturnNull ELSE ReturnValue(Column(rows[1], c))
         ELSE ReturnRow(rows[1])

\* const row = rows[0];
\* if (colName && row && typeof row === 'object') return row[colName] ?? null;
\* return row ?? null;
FirstOfRows(rows, c) ==
    IF rows = <<>> THEN ReturnNull
    ELSE IF Truthy(c)
         THEN IF Nullish(Column(rows[1], c))
              THEN ReturnNull ELSE ReturnValue(Column(rows[1], c))
         ELSE ReturnRow(rows[1])

\* NodeD1PreparedStatement.first / BoundD1PreparedStatement.first: no try/catch
NodeFirst(reply, c) ==
    IF reply.ok THEN FirstOfRows(reply.rows, c) ELSE Throw(reply.error)

\* MysqlD1PreparedStatement.first / BoundMysqlD1PreparedStatement.first:
\* catch (error) { console.error(...); return null; }
MysqlFirst(reply, c) ==
    IF reply.ok THEN FirstOfRows(reply.rows, c) ELSE ReturnNull

\* PostgresD1PreparedStatement.first / BoundPostgresD1PreparedStatement.first:
\* catch (error) { console.error(...); return null; }
PostgresFirst(reply, c) ==
    IF reply.ok THEN FirstOfRows(reply.rows, c) ELSE ReturnNull

\* run, all, raw and exec of every adapter: the error is logged and thrown
\* again (MySQL, PostgreSQL) or never caught (SQLite)
Rethrowing(method, reply) ==
    IF ~reply.ok THEN Throw(reply.error)
    ELSE IF method \in {"run", "exec"} THEN ReturnEnvelope
    ELSE ReturnRows

Dispatch(c) ==
    IF c.method = "first" THEN
        IF c.adapter = "sqlite" THEN NodeFirst(c.reply, c.colName)
        ELSE IF c.adapter = "mysql" THEN MysqlFirst(c.reply, c.colName)
        ELSE PostgresFirst(c.reply, c.colName)
    ELSE Rethrowing(c.method, c.reply)

CallInit ==
    /\ call \in Calls
    /\ outcome = NoOutcome

CallParked ==
    /\ call = NoCall
    /\ outcome = NoOutcome

\* the method runs and settles
Execute ==
    /\ outcome = NoOutcome
    /\ outcome' = Dispatch(call)
    /\ UNCHANGED <<call, runnerVars, batchVars, bindVars, runVars, translateVars,
                   applyVars, execVars, selectVars>>

(***************************************************************************)
(* Bound parameters.  A JavaScript value is a record of its type and its   *)
(* content: a string is the sequence of its characters, a Date is its time *)
(* value as a day number since 1970-01-01, the second of that day and the  *)
(* millisecond (nan: an Invalid Date), a number is an integer or NaN.      *)
(***************************************************************************)
JsValue(type, chars, n, sec, milli, isNaN) ==
    [t |-> type, s |-> chars, n |-> n, sod |-> sec, ms |-> milli, nan |-> isNaN]

JsNull == JsValue("null", <<>>, 0, 0, 0, FALSE)
JsUndefined == JsValue("undefined", <<>>, 0, 0, 0, FALSE)
JsNum(n) == JsValue("number", <<>>, n, 0, 0, FALSE)
JsNaN == JsValue("number", <<>>, 0, 0, 0, TRUE)
JsStr(chars) == JsValue("string", chars, 0, 0, 0, FALSE)
JsDate(days, sec, milli) == JsValue("date", <<>>, days, sec, milli, FALSE)
InvalidDate == JsValue("date", <<>>, 0, 0, 0, TRUE)

\* time zones of the server process (minutes east of UTC), without DST
TimeZones == {-300, 0, 330}

\* days from 1970-01-01 to the civil date y-m-d (MakeDay of ECMAScript)
DaysFromCivil(y, m, d) ==
    LET yy == IF m <= 2 THEN y - 1 ELSE y
        era == yy \div 400
        yoe == yy - era * 400
        mp == IF m > 2 THEN m - 3 ELSE m + 9
        doy == (153 * mp + 2) \div 5 + d - 1
        doe == yoe * 365 + yoe \div 4 - yoe \div 100 + doy
    IN  era * 146097 + doe - 719468

\* YearFromTime, MonthFromTime, DateFromTime of ECMAScript
CivilFromDays(z) ==
    LET zz == z + 719468
        era == zz \div 146097
        doe == zz - era * 146097
        yoe == (doe - doe \div 1460 + doe \div 36524 - doe \div 146096) \div 365
        doy == doe - (365 * yoe + yoe \div 4 - yoe \div 100)
        mp == (5 * doy + 2) \div 153
        d == doy - (153 * mp + 2) \div 5 + 1
        m == IF mp < 10 THEN mp + 3 ELSE mp - 9
        y == yoe + era * 400
    IN  [year |-> IF m <= 2 THEN y + 1 ELSE y, month |-> m, day |-> d]

DaysInMonth(y, m) ==
    IF m = 12 THEN 31 ELSE DaysFromCivil(y, m + 1, 1) - DaysFromCivil(y, m, 1)

\* a time value moved by a number of seconds
Shift(days, sec, delta) ==
    [days |-> days + (sec + delta) \div 86400, sod |-> (sec + delta) % 86400]

\* /^\d{4}-\d{2}-\d{2}T\d{2}:\d{2}:\d{2}/ ("d" stands for \d)
IsoDateTimePattern ==
    <<"d", "d", "d", "d", "-", "d", "d", "-", "d", "d", "T",
      "d", "d", ":", "d", "d", ":", "d", "d">>

\* /^\d{4}-\d{2}-\d{2}$/
DateOnlyPattern == <<"d", "d", "d", "d", "-", "d", "d", "-", "d", "d">>

\* the string has the pattern at its start
MatchesPrefix(chars, pattern) ==
    /\ Len(chars) >= Len(pattern)
    /\ \A i \in DOMAIN pattern :
         IF pattern[i] = "d" THEN chars[i] \in Digits ELSE chars[i] = pattern[i]

\* the fraction and the zone that follow the seconds, as Date.parse reads
\* them: none (local time), "Z", ".mmm" or ".mmmZ"; anything else is not a date
IsoSuffix(rest) ==
    LET frac == /\ Len(rest) >= 4
                /\ rest[1] = "."
                /\ \A i \in 2..4 : rest[i] \in Digits
        zone == IF frac THEN SubSeq(rest, 5, Len(rest)) ELSE rest
    IN  [ok |-> zone \in {<<>>, <<"Z">>},
         ms |-> IF frac THEN ParseInt(SubSeq(rest, 2, 4)) ELSE 0,
         utc |-> zone = <<"Z">>]

\* the Date of a time value
DateAt(at, milli) == JsDate(at.days, at.sod, milli)

\* the time value of the fields of a date-time string, or an Invalid Date
DateFromFields(y, mo, d, h, mi, se, suf, zone) ==
    IF /\ suf.ok
       /\ mo \in 1..12
       /\ d >= 1
       /\ d <= DaysInMonth(y, mo)
       /\ h <= 23
       /\ mi <= 59
       /\ se <= 59
    THEN DateAt(Shift(DaysFromCivil(y, mo, d), h * 3600 + mi * 60 + se,
                      IF suf.utc THEN 0 ELSE 0 - zone * 60),
                suf.ms)
    ELSE InvalidDate

\* new Date(string) for a string that begins with a date and a time
DateParse(chars, zone) ==
    DateFromFields(ParseInt(SubSeq(chars, 1, 4)), ParseInt(SubSeq(chars, 6, 7)),
                   ParseInt(SubSeq(chars, 9, 10)), ParseInt(SubSeq(chars, 12, 13)),
                   ParseInt(SubSeq(chars, 15, 16)), ParseInt(SubSeq(chars, 18, 19)),
                   IsoSuffix(SubSeq(chars, 20, Len(chars))), zone)

\* the character of a digit
DigitChar(n) == Alphabet[n + 2]

\* String(n) of a non-negative integer
RECURSIVE IntToChars(_)
IntToChars(n) ==
    IF n < 10 THEN <<DigitChar(n)>> ELSE IntToChars(n \div 10) \o <<DigitChar(n % 10)>>

\* String(n).padStart(2, '0')
PadStart2(n) == IF n < 10 THEN <<"0">> \o IntToChars(n) ELSE IntToChars(n)

\* the result of a call that may throw
Returned(v) == [threw |-> FALSE, val |-> v]
Thrown == [threw |-> TRUE, val |-> JsUndefined]

\* `${year}-${month}-${day} ${hours}:${minutes}:${seconds}`
DateTimeString(civil, sec) ==
    JsStr(IntToChars(civil.year) \o <<"-">> \o PadStart2(civil.month) \o <<"-">>
          \o PadStart2(civil.day) \o <<" ">> \o PadStart2(sec \div 3600) \o <<":">>
          \o PadStart2((sec % 3600) \div 60) \o <<":">> \o PadStart2(sec % 60))

\* the fields of a time value as the getters of the given offset read them
FieldsString(at) == DateTimeString(CivilFromDays(at.days), at.sod)

\* if (isNaN(d.getTime())) throw new Error(...); then the getters
FormatDate(d, offset) ==
    IF d.nan THEN Thrown ELSE Returned(FieldsString(Shift(d.n, d.sod, offset * 60)))

\* const d = typeof date === 'string' ? new Date(date) : date
AsDate(date, zone) == IF date.t = "string" THEN DateParse(date.s, zone) ELSE date

toMySQLDateTimeUTC(date, zone) == FormatDate(AsDate(date, zone), 0)

\* function toMySQLDateTime(date: Date | string): string; getFullYear,
\* getMonth, getDate, getHours, getMinutes and getSeconds read local time
toMySQLDateTime(date, zone) == FormatDate(AsDate(date, zone), zone)

\* try { return toMySQLDateTime(value); } catch (error) { return value; }
\* for a string; a Date is converted outside any try block
Caught(value, converted) ==
    IF converted.threw /\ value.t = "string" THEN Returned(value) ELSE converted

\* the callback of values.map in convertDatesForMySQL
ConvertValue(value, zone) ==
    IF value.t = "date" \/ (value.t = "string" /\ MatchesPrefix(value.s, IsoDateTimePattern))
    THEN Caught(value, toMySQLDateTime(value, zone))
    ELSE Returned(value)

\* the outcome of building a parameter list
Params(vs) == [threw |-> FALSE, vals |-> vs]
ParamsThrown == [threw |-> TRUE, vals |-> <<>>]

\* the list that map returns, unless a callback threw
Collect(each) ==
    IF \E i \in DOMAIN each : each[i].threw THEN ParamsThrown
    ELSE Params([i \in DOMAIN each |-> each[i].val])

\* function convertDatesForMySQL(values: unknown[]): unknown[]
convertDatesForMySQL(values, zone) ==
    Collect([i \in 1..Len(values) |-> ConvertValue(values[i], zone)])

\* the safety check of the constructor: NaN becomes 0, undefined becomes null
SafeValue(v) ==
    IF v.t = "number" /\ v.nan THEN JsNum(0)
    ELSE IF v.t = "undefined" THEN JsNull
    ELSE v

\* this.values = convertedValues.map(...)
Safe(converted) ==
    IF converted.threw THEN ParamsThrown
    ELSE Params([i \in DOMAIN converted.vals |-> SafeValue(converted.vals[i])])

\* new BoundMysqlD1PreparedStatement(pool, query, values): this.values
MysqlBoundValues(values, zone) == Safe(convertDatesForMySQL(values, zone))

SpreadReversed(thisValues, values) == values \o thisValues

\* [...this.values, ...values]
Spread(thisValues, values) == thisValues \o values

\* new BoundMysqlD1PreparedStatement(this.pool, this.query,
\*                                   [...this.values, ...convertedNewValues])
MysqlRebound(thisValues, converted, zone) ==
    IF converted.threw THEN ParamsThrown
    ELSE MysqlBoundValues(Spread(thisValues, converted.vals), zone)

\* BoundMysqlD1PreparedStatement.bind
MysqlBoundBind(thisValues, values, zone) ==
    MysqlRebound(thisValues, convertDatesForMySQL(values, zone), zone)

\* bind of a statement object: the parameter list of the object it returns.
\* The unbound statement of every adapter passes the values to the
\* constructor; BoundD1PreparedStatement and BoundPostgresD1PreparedStatement
\* store the list they are given.
BindValues(adapter, this, values, zone) ==
    IF adapter = "mysql" THEN
        IF this.bound THEN MysqlBoundBind(this.values, values, zone)
        ELSE MysqlBoundValues(values, zone)
    ELSE
        IF this.bound THEN Params(Spread(this.values, values))
        ELSE Params(values)

(***************************************************************************)
(* The values that are bound.                                              *)
(***************************************************************************)
\* '2026-01-19T14:10:34.278Z'
IsoUtcMillis ==
    JsStr(<<"2", "0", "2", "6", "-", "0", "1", "-", "1", "9", "T",
            "1", "4", ":", "1", "0", ":", "3", "4", ".", "2", "7", "8", "Z">>)

\* '2026-12-31T23:30:00Z'
IsoUtcNewYear ==
    JsStr(<<"2", "0", "2", "6", "-", "1", "2", "-", "3", "1", "T",
            "2", "3", ":", "3", "0", ":", "0", "0", "Z">>)

\* '2026-03-01T02:15:09': no zone, read as local time
IsoLocal ==
    JsStr(<<"2", "0", "2", "6", "-", "0", "3", "-", "0", "1", "T",
            "0", "2", ":", "1", "5", ":", "0", "9">>)

\* '2026-13-45T25:61:61Z': the shape of a timestamp, fields out of range
IsoOutOfRange ==
    JsStr(<<"2", "0", "2", "6", "-", "1", "3", "-", "4", "5", "T",
            "2", "5", ":", "6", "1", ":", "6", "1", "Z">>)

\* '2026-01-19'
DateOnly == JsStr(<<"2", "0", "2", "6", "-", "0", "1", "-", "1", "9">>)

\* 'x'
StrX == JsStr(<<"x">>)

\* new Date('2026-01-19T14:10:34.278Z')
NativeDate == JsDate(DaysFromCivil(2026, 1, 19), 14 * 3600 + 10 * 60 + 34, 278)

BindValuePool ==
    {JsNaN, JsUndefined, JsNull, JsNum(5), StrX, IsoUtcMillis, IsoUtcNewYear, IsoLocal,
     IsoOutOfRange, DateOnly, NativeDate, InvalidDate}

\* the argument lists of the bind calls
ValueLists ==
    { <<>> } \cup { <<v>> : v \in BindValuePool }
    \cup { <<JsNaN, StrX, JsUndefined>>,
           <<IsoOutOfRange, IsoUtcMillis, JsNaN>>,
           <<InvalidDate, IsoUtcMillis, JsNaN>> }

\* db.prepare(query)
Prepared == [parent |-> 0, args |-> <<>>, bound |-> FALSE, values |-> <<>>]

BindInit ==
    /\ bindAdapter \in Adapters
    /\ tz \in TimeZones
    /\ stmts = <<Prepared>>
    /\ aborted = {}

BindParked ==
    /\ bindAdapter = "sqlite"
    /\ tz = 0
    /\ stmts = <<>>
    /\ aborted = {}

\* the caller gets the new statement object, or the exception
BindSettles(i, values, made) ==
    IF made.threw
    THEN /\ aborted' = aborted \cup {<<i, values>>}
         /\ UNCHANGED stmts
    ELSE /\ stmts' = Append(stmts, [parent |-> i, args |-> values, bound |-> TRUE,
                                    values |-> made.vals])
         /\ UNCHANGED aborted

\* stmts[i].bind(...values): a new statement object, or the exception of
\* the date conversion
Bind(i, values) ==
    /\ Len(stmts) - 1 + Cardinality(aborted) < MaxBinds
    /\ BindSettles(i, values, BindValues(bindAdapter, stmts[i], values, tz))
    /\ UNCHANGED <<bindAdapter, tz, runnerVars, batchVars, callVars, runVars,
                   translateVars, applyVars, execVars, selectVars>>

BindNext == \E i \in DOMAIN stmts : \E values \in ValueLists : Bind(i, values)

(***************************************************************************)
(* run() and all() on a table with an auto-increment id.  The driver's     *)
(* answer is one record for the three drivers: changes is changes          *)
(* (better-sqlite3), affectedRows (mysql2) and rowCount (pg).              *)
(***************************************************************************)
Titles == {"a", "b"}
Ids == 1..MaxCalls

\* the statements given to run()
RunStatements ==
    [kind : {"insert", "insert_returning"}, id : {0}, title : Titles]
    \cup [kind : {"update"}, id : Ids, title : Titles]
    \cup [kind : {"delete"}, id : Ids, title : {""}]

InsertKinds == {"insert", "insert_returning"}

\* INSERT ... RETURNING is not MySQL syntax
Accepts(adapter, st) == st.kind = "insert_returning" => adapter # "mysql"

HasRow(tbl, id) == \E r \in tbl : r.id = id

\* the table after the statement
EngineItems(tbl, st, newId) ==
    IF st.kind \in InsertKinds THEN tbl \cup {[id |-> newId, title |-> st.title]}
    ELSE IF st.kind = "update"
         THEN {IF r.id = st.id THEN [id |-> r.id, title |-> st.title] ELSE r : r \in tbl}
    ELSE {r \in tbl : r.id # st.id}

\* what the driver reports for the statement
DriverResult(tbl, st, newId, lastRowid) ==
    [changes |-> IF st.kind \in InsertKinds \/ HasRow(tbl, st.id) THEN 1 ELSE 0,
     insertId |-> IF st.kind \in InsertKinds THEN newId ELSE 0,
     lastInsertRowid |-> IF st.kind \in InsertKinds THEN newId ELSE lastRowid,
     rows |-> IF st.kind = "insert_returning" THEN <<[id |-> newId]>> ELSE <<>>]

\* the || operator on numbers and null
Falsy(v) == v.t \in {"null", "undefined"} \/ (v.t = "number" /\ (v.nan \/ v.n = 0))
Or(v, w) == IF Falsy(v) THEN w ELSE v

\* result.rows[0]?.id
FirstRowId(rows) == IF rows = <<>> THEN JsUndefined ELSE JsNum(rows[1].id)

\* NodeD1PreparedStatement.run / BoundD1PreparedStatement.run
NodeRun(result) ==
    [success |-> TRUE,
     meta |-> [changes |-> JsNum(result.changes),
               last_insert_rowid |-> JsNum(result.lastInsertRowid),
               last_row_id |-> JsNum(result.lastInsertRowid),
               changed_db |-> FALSE,
               duration |-> JsNum(0),
               rows_read |-> JsNum(0),
               rows_written |-> JsNum(result.changes),
               size_after |-> JsNum(0)]]

\* MysqlD1PreparedStatement.run / BoundMysqlD1PreparedStatement.run
MysqlRun(result) ==
    [success |-> TRUE,
     meta |-> [changes |-> Or(JsNum(result.changes), JsNum(0)),
               last_insert_rowid |-> Or(JsNum(result.insertId), JsNull),
               last_row_id |-> Or(JsNum(result.insertId), JsNull),
               changed_db |-> FALSE,
               duration |-> JsNum(0),
               rows_read |-> JsNum(0),
               rows_written |-> Or(JsNum(result.changes), JsNum(0)),
               size_after |-> JsNum(0)]]

\* PostgresD1PreparedStatement.run / BoundPostgresD1PreparedStatement.run
PostgresRun(result) ==
    [success |-> TRUE,
     meta |-> [changes |-> Or(JsNum(result.changes), JsNum(0)),
               last_insert_rowid |-> Or(FirstRowId(result.rows), JsNull),
               duration |-> JsNum(0),
               rows_read |-> JsNum(0),
               rows_written |-> Or(JsNum(result.changes), JsNum(0)),
               size_after |-> JsNum(0)]]

RunEnvelope(adapter, result) ==
    IF adapter = "sqlite" THEN NodeRun(result)
    ELSE IF adapter = "mysql" THEN MysqlRun(result)
    ELSE PostgresRun(result)

\* all() of the three adapters: rows.length (SQLite), rows.length || 0
\* (MySQL), result.rowCount || 0 (PostgreSQL)
AllEnvelope(adapter, rows) ==
    [success |-> TRUE,
     meta |-> [duration |-> JsNum(0),
               size_after |-> JsNum(0),
               rows_read |-> IF adapter = "sqlite" THEN JsNum(Len(rows))
                             ELSE Or(JsNum(Len(rows)), JsNum(0)),
               rows_written |-> JsNum(0)],
     results |-> rows]

\* SELECT * FROM items WHERE id = ?
SelectById(tbl, id) ==
    IF HasRow(tbl, id) THEN <<CHOOSE r \in tbl : r.id = id>> ELSE <<>>

RunInit ==
    /\ runAdapter \in Adapters
    /\ items = {}
    /\ autoIncrement = 1
    /\ lastInsertRowid = 0
    /\ envelopes = <<>>

RunParked ==
    /\ runAdapter = "sqlite"
    /\ items = {}
    /\ autoIncrement = 0
    /\ lastInsertRowid = 0
    /\ envelopes = <<>>

\* db.prepare(st).bind(...).run()
Run(st) ==
    /\ Len(envelopes) < MaxCalls
    /\ Accepts(runAdapter, st)
    /\ LET result == DriverResult(items, st, autoIncrement, lastInsertRowid)
       IN  /\ items' = EngineItems(items, st, autoIncrement)
           /\ autoIncrement' = IF st.kind \in InsertKinds THEN autoIncrement + 1
                               ELSE autoIncrement
           /\ lastInsertRowid' = result.lastInsertRowid
           /\ envelopes' = Append(envelopes,
                                  [method |-> "run", st |-> st, result |-> result,
                                   envelope |-> RunEnvelope(runAdapter, result)])
    /\ UNCHANGED <<runAdapter, runnerVars, batchVars, callVars, bindVars, translateVars,
                   applyVars, execVars, selectVars>>

\* db.prepare('SELECT * FROM items WHERE id = ?').bind(id).all()
All(id) ==
    /\ Len(envelopes) < MaxCalls
    /\ envelopes' = Append(envelopes,
                           [method |-> "all",
                            st |-> [kind |-> "select", id |-> id, title |-> ""],
                            result |-> [changes |-> 0, insertId |-> 0,
                                        lastInsertRowid |-> lastInsertRowid,
                                        rows |-> SelectById(items, id)],
                            envelope |-> AllEnvelope(runAdapter, SelectById(items, id))])
    /\ UNCHANGED <<runAdapter, items, autoIncrement, lastInsertRowid,
                   runnerVars, batchVars, callVars, bindVars, translateVars, applyVars, execVars,
                   selectVars>>

RunNext ==
    \/ \E st \in RunStatements : Run(st)
    \/ \E id \in Ids : All(id)

(***************************************************************************)
(* The dialect translator on the text of a migration file.  The text is    *)
(* the sequence of its tokens: keywords, names, numbers and quoted         *)
(* literals, which white space separates, and the punctuation ( ) , ; .    *)
(* The token " " stands for white space in front of an opening             *)
(* parenthesis, the one place where the regular expressions of the         *)
(* translator differ in the white space they accept.  The names used in    *)
(* migrations here are not parts of one another, so a regular expression   *)
(* finds a name in the text exactly where the name is a token.             *)
(***************************************************************************)
\* the back quote character, which a string of this language cannot hold
BackQuote == "BACKQUOTE"

Punctuation == {"(", ")", ",", ";", " ", BackQuote}

\* '[^']*'
StringLiterals == {"'todo'", "'none'"}

\* \w+ matches the token
IsWord(t) ==
    /\ t # ""
    /\ t \notin Punctuation
    /\ t \notin StringLiterals

\* the token at position i, "" beyond the end of the text
At(toks, i) == IF i \in DOMAIN toks THEN toks[i] ELSE ""

DropN(toks, n) == SubSeq(toks, n + 1, Len(toks))

\* the text continues with the tokens of pat
StartsWith(toks, pat) == Len(toks) >= Len(pat) /\ SubSeq(toks, 1, Len(pat)) = pat

\* String.prototype.replace with a global regular expression of fixed words
RECURSIVE ReplaceAll(_, _, _)
ReplaceAll(toks, pat, rep) ==
    IF toks = <<>> THEN <<>>
    ELSE IF StartsWith(toks, pat)
         THEN rep \o ReplaceAll(DropN(toks, Len(pat)), pat, rep)
         ELSE <<Head(toks)>> \o ReplaceAll(Tail(toks), pat, rep)

\* the first of a set of positions, 0 if there is none
First(P) == IF P = {} THEN 0 ELSE CHOOSE p \in P : \A q \in P : p <= q

\* the position of the first token t, 0 if there is none
FirstIndex(toks, t) == First({i \in DOMAIN toks : toks[i] = t})

\* String.prototype.split
RECURSIVE Split(_, _)
Split(toks, sep) ==
    IF FirstIndex(toks, sep) = 0 THEN <<toks>>
    ELSE <<SubSeq(toks, 1, FirstIndex(toks, sep) - 1)>>
         \o Split(DropN(toks, FirstIndex(toks, sep)), sep)

\* \s*\( at position i: the position after the parenthesis, 0 if no match
AfterOpen(toks, i) ==
    IF At(toks, i) = "(" THEN i + 1
    ELSE IF At(toks, i) = " " /\ At(toks, i + 1) = "(" THEN i + 2
    ELSE 0

\* \(([^)]+)\) with the parenthesis opened before position o: the position
\* of the closing parenthesis, 0 if no match
ClosingFrom(toks, o) ==
    IF o = 0 \/ FirstIndex(DropN(toks, o - 1), ")") < 2 THEN 0
    ELSE o + FirstIndex(DropN(toks, o - 1), ")") - 1

\* /CREATE TABLE\s+(\w+)\s*\(([^)]+)\)/gi matches at position p
TableMatchAt(toks, p) ==
    /\ At(toks, p) = "CREATE"
    /\ At(toks, p + 1) = "TABLE"
    /\ IsWord(At(toks, p + 2))
    /\ ClosingFrom(toks, AfterOpen(toks, p + 3)) > 0

\* match[1] and match[2] of the match at p
TableMatch(toks, p) ==
    [table |-> toks[p + 2],
     columnsDef |-> SubSeq(toks, AfterOpen(toks, p + 3),
                           ClosingFrom(toks, AfterOpen(toks, p + 3)) - 1)]

\* the matches at the positions of P, in the order of the text
RECURSIVE TableMatchesAt(_, _)
TableMatchesAt(toks, P) ==
    IF P = {} THEN <<>>
    ELSE <<TableMatch(toks, First(P))>> \o TableMatchesAt(toks, P \ {First(P)})

\* sql.matchAll(/CREATE TABLE\s+(\w+)\s*\(([^)]+)\)/gi)
tableMatches(toks) == TableMatchesAt(toks, {p \in DOMAIN toks : TableMatchAt(toks, p)})

\* line.match(/^(\w+)\s+TEXT/i)
IsTextColumn(line) == Len(line) >= 2 /\ IsWord(line[1]) /\ line[2] = "TEXT"

\* line.match(/^(\w+)\s+TEXT.*UNIQUE/i)
IsUniqueTextColumn(line) ==
    /\ IsTextColumn(line)
    /\ \E j \in 3..Len(line) : line[j] = "UNIQUE"

\* the test of a line for one of the two maps
Matches(line, uniqueOnly) == IF uniqueOnly THEN IsUniqueTextColumn(line) ELSE IsTextColumn(line)

\* colMatch[1] of the lines of a definition that match, in the order of the text
RECURSIVE NamesOf(_, _)
NamesOf(columnLines, uniqueOnly) ==
    IF columnLines = <<>> THEN <<>>
    ELSE (IF Matches(Head(columnLines), uniqueOnly) THEN <<Head(columnLines)[1]>> ELSE <<>>)
         \o NamesOf(Tail(columnLines), uniqueOnly)

\* the names as pairs <<tableName, column>>
Paired(tableName, names) == [k \in DOMAIN names |-> <<tableName, names[k]>>]

\* the pairs <<tableName, column>> of the matches, in the order of the text
RECURSIVE ColumnsOf(_, _)
ColumnsOf(matches, uniqueOnly) ==
    IF matches = <<>> THEN <<>>
    ELSE Paired(Head(matches).table,
                NamesOf(Split(Head(matches).columnsDef, ","), uniqueOnly))
         \o ColumnsOf(Tail(matches), uniqueOnly)

\* const textColumns = new Map<string, Set<string>>(), filled from the text
textColumns(toks) == Range(ColumnsOf(tableMatches(toks), FALSE))

\* const uniqueTextColumns = new Map<string, Set<string>>(), in insertion order
uniqueTextColumns(toks) == ColumnsOf(tableMatches(toks), TRUE)

\* textColumns.get(tableName) || new Set()
TextColumnsOfTable(textCols, tableName) == {tc[2] : tc \in {x \in textCols : x[1] = tableName}}

\* columnsDef.match(/UNIQUE\s*\(([^)]+)\)/i): the position of UNIQUE in the
\* match, 0 if there is none
UniqueClauseAt(toks) ==
    First({p \in DOMAIN toks :
             toks[p] = "UNIQUE" /\ ClosingFrom(toks, AfterOpen(toks, p + 1)) > 0})

\* uniqueMatch[1].split(',').map(col => col.trim()) for the clause at p
ClauseColumns(toks, p) ==
    Split(SubSeq(toks, AfterOpen(toks, p + 1),
                 ClosingFrom(toks, AfterOpen(toks, p + 1)) - 1), ",")

\* cols.some(col => textCols.has(col))
SomeText(cols, names) == \E k \in DOMAIN cols : Len(cols[k]) = 1 /\ cols[k][1] \in names

\* const multiColumnUniqueConstraints: Array<{table, columns}>, filled from
\* the matches of CREATE TABLE
RECURSIVE multiColumnUniqueConstraints(_, _)
multiColumnUniqueConstraints(matches, textCols) ==
    IF matches = <<>> THEN <<>>
    ELSE (IF /\ UniqueClauseAt(Head(matches).columnsDef) > 0
             /\ SomeText(ClauseColumns(Head(matches).columnsDef,
                                       UniqueClauseAt(Head(matches).columnsDef)),
                         TextColumnsOfTable(textCols, Head(matches).table))
          THEN <<[table |-> Head(matches).table,
                  columns |-> ClauseColumns(Head(matches).columnsDef,
                                            UniqueClauseAt(Head(matches).columnsDef))]>>
          ELSE <<>>)
         \o multiColumnUniqueConstraints(Tail(matches), textCols)

\* sql.replace(/TEXT\s+NOT\s+NULL\s+UNIQUE/gi, 'TEXT NOT NULL') and
\* sql.replace(/TEXT\s+UNIQUE/gi, 'TEXT')
StripTextUnique(toks) ==
    ReplaceAll(ReplaceAll(toks, <<"TEXT", "NOT", "NULL", "UNIQUE">>, <<"TEXT", "NOT", "NULL">>),
               <<"TEXT", "UNIQUE">>, <<"TEXT">>)

\* the names that are TEXT columns of some table
TextNames(textCols) == {tc[2] : tc \in textCols}

\* the callback of sql.replace(/UNIQUE\s*\(([^)]+)\)/gi, ...) for the match
\* that ends at close
UniqueClauseReplaced(toks, close, names) ==
    IF SomeText(Split(SubSeq(toks, AfterOpen(toks, 2), close - 1), ","), names)
    THEN <<>>
    ELSE SubSeq(toks, 1, close)

\* sql.replace(/UNIQUE\s*\(([^)]+)\)/gi, (match, columnsStr) => ...)
RECURSIVE RemoveUniqueClauses(_, _)
RemoveUniqueClauses(toks, names) ==
    IF toks = <<>> THEN <<>>
    ELSE IF Head(toks) = "UNIQUE" /\ ClosingFrom(toks, AfterOpen(toks, 2)) > 0
         THEN UniqueClauseReplaced(toks, ClosingFrom(toks, AfterOpen(toks, 2)), names)
              \o RemoveUniqueClauses(DropN(toks, ClosingFrom(toks, AfterOpen(toks, 2))), names)
         ELSE <<Head(toks)>> \o RemoveUniqueClauses(Tail(toks), names)

\* the three replacements that clean up the commas left behind
CleanCommas(toks) ==
    ReplaceAll(ReplaceAll(ReplaceAll(toks, <<",", ",">>, <<",">>),
                          <<",", ")">>, <<")">>),
               <<"(", ",">>, <<"(">>)

\* sql.replace(/<pat>\s+'[^']*'/gi, <pat without DEFAULT>), pat ending in DEFAULT
RECURSIVE RemoveDefault(_, _)
RemoveDefault(toks, pat) ==
    IF toks = <<>> THEN <<>>
    ELSE IF StartsWith(toks, pat) /\ At(toks, Len(pat) + 1) \in StringLiterals
         THEN SubSeq(pat, 1, Len(pat) - 1) \o RemoveDefault(DropN(toks, Len(pat) + 1), pat)
         ELSE <<Head(toks)>> \o RemoveDefault(Tail(toks), pat)

\* the two replacements that remove the default values of TEXT columns
RemoveTextDefaults(toks) ==
    RemoveDefault(RemoveDefault(toks, <<"TEXT", "NOT", "NULL", "DEFAULT">>),
                  <<"TEXT", "DEFAULT">>)

\* sql.replace(/<pat>(?!\s+<next>)/g, rep)
RECURSIVE ReplaceUnlessFollowed(_, _, _, _)
ReplaceUnlessFollowed(toks, pat, rep, next) ==
    IF toks = <<>> THEN <<>>
    ELSE IF StartsWith(toks, pat) /\ At(toks, Len(pat) + 1) # next
         THEN rep \o ReplaceUnlessFollowed(DropN(toks, Len(pat)), pat, rep, next)
         ELSE <<Head(toks)>> \o ReplaceUnlessFollowed(Tail(toks), pat, rep, next)

\* the replacements of the column types; serial is what an auto-increment
\* key becomes, keyword what AUTOINCREMENT elsewhere becomes, integerKey what
\* any other integer key becomes
ConvertTypes(toks, serial, keyword, integerKey) ==
    ReplaceUnlessFollowed(
        ReplaceAll(
            ReplaceAll(
                ReplaceAll(
                    ReplaceAll(
                        ReplaceAll(toks, <<"INTEGER", "PRIMARY", "KEY", "AUTOINCREMENT">>, serial),
                        <<"AUTOINCREMENT">>, keyword),
                    <<"DATETIME">>, <<"TIMESTAMP">>),
                <<"BOOLEAN", "DEFAULT", "0">>, <<"BOOLEAN", "DEFAULT", "FALSE">>),
            <<"BOOLEAN", "DEFAULT", "1">>, <<"BOOLEAN", "DEFAULT", "TRUE">>),
        <<"INTEGER", "PRIMARY", "KEY">>, integerKey, "AUTOINCREMENT")

\* the MySQL column types
MysqlTypes(toks) ==
    ConvertTypes(toks, <<"INT", "AUTO_INCREMENT", "PRIMARY", "KEY">>, <<"AUTO_INCREMENT">>,
                 <<"INT", "PRIMARY", "KEY">>)

\* the PostgreSQL column types
PostgresTypes(toks) ==
    ConvertTypes(toks, <<"SERIAL", "PRIMARY", "KEY">>, <<>>, <<"SERIAL", "PRIMARY", "KEY">>)

\* /ALTER\s+TABLE\s+(\w+)\s+ADD\s+COLUMN\s+(\w+)(\s+.*?)(?=;|$)/gi matches at
\* the start of the text
AddColumnMatch(toks) ==
    /\ StartsWith(toks, <<"ALTER", "TABLE">>)
    /\ IsWord(At(toks, 3))
    /\ At(toks, 4) = "ADD" /\ At(toks, 5) = "COLUMN"
    /\ IsWord(At(toks, 6))
    /\ At(toks, 7) \notin {"", ";", "(", ")", ","}

\* the callback: a column whose name is a reserved keyword is back-quoted
\* (the names of columns in migrations are in lower case)
AddColumnReplaced(toks) ==
    IF toks[6] \in reservedKeywords
    THEN SubSeq(toks, 1, 5) \o <<BackQuote, toks[6], BackQuote>>
    ELSE SubSeq(toks, 1, 6)

\* sql.replace(/ALTER\s+TABLE\s+(\w+)\s+ADD\s+COLUMN\s+(\w+)(\s+.*?)(?=;|$)/gi, ...)
RECURSIVE EscapeReserved(_)
EscapeReserved(toks) ==
    IF toks = <<>> THEN <<>>
    ELSE IF AddColumnMatch(toks)
         THEN AddColumnReplaced(toks) \o EscapeReserved(DropN(toks, 6))
         ELSE <<Head(toks)>> \o EscapeReserved(Tail(toks))

\* /(CREATE TABLE IF NOT EXISTS <tableName>[^;]+;)/i matches at position p
CreatedTableAt(toks, tableName, p) ==
    /\ StartsWith(DropN(toks, p - 1), <<"CREATE", "TABLE", "IF", "NOT", "EXISTS", tableName>>)
    /\ FirstIndex(DropN(toks, p + 5), ";") >= 2

\* the position of the semicolon that ends the match at p
StatementEnd(toks, p) == IF p = 0 THEN 0 ELSE p + 5 + FirstIndex(DropN(toks, p + 5), ";")

\* sql.replace(new RegExp(`(CREATE TABLE IF NOT EXISTS ${tableName}[^;]+;)`, 'i'),
\* `$1\n<statement>`) with the first match ending at position end
InsertAfter(toks, end, statement) ==
    IF end = 0 THEN toks ELSE SubSeq(toks, 1, end) \o statement \o DropN(toks, end)

\* the replacement for the table tableName
AfterCreateTable(toks, tableName, statement) ==
    InsertAfter(toks,
                StatementEnd(toks, First({p \in DOMAIN toks : CreatedTableAt(toks, tableName, p)})),
                statement)

\* col => textCols.has(col) ? `${col}(255)` : col, for one column of a list
WithKeyLength(col, names) ==
    IF Len(col) = 1 /\ col[1] \in names THEN col \o <<"(", "255", ")">> ELSE col

\* cols.join(', ')
RECURSIVE Joined(_)
Joined(cols) ==
    IF cols = <<>> THEN <<>>
    ELSE IF Len(cols) = 1 THEN cols[1]
    ELSE cols[1] \o <<",">> \o Joined(Tail(cols))

\* constraint.columns.join('_')
RECURSIVE JoinedNames(_)
JoinedNames(cols) ==
    IF cols = <<>> THEN ""
    ELSE IF Len(cols) = 1 THEN At(cols[1], 1)
    ELSE At(cols[1], 1) \o "_" \o JoinedNames(Tail(cols))

\* CREATE UNIQUE INDEX <indexName> ON <tableName>(<cols>);
CreateUniqueIndex(indexName, tableName, cols) ==
    <<"CREATE", "UNIQUE", "INDEX", indexName, "ON", tableName, "(">> \o Joined(cols) \o <<")", ";">>

\* the statement added for one multi-column constraint
ConstraintIndex(constraint, names) ==
    CreateUniqueIndex("idx_" \o constraint.table \o "_" \o JoinedNames(constraint.columns)
                          \o "_unique",
                      constraint.table,
                      [k \in DOMAIN constraint.columns |->
                          WithKeyLength(constraint.columns[k], names)])

\* for (const constraint of multiColumnUniqueConstraints) { sql = sql.replace(...) }
RECURSIVE AddConstraintIndexes(_, _, _)
AddConstraintIndexes(toks, constraints, textCols) ==
    IF constraints = <<>> THEN toks
    ELSE AddConstraintIndexes(
             AfterCreateTable(toks, Head(constraints).table,
                              ConstraintIndex(Head(constraints),
                                              TextColumnsOfTable(textCols, Head(constraints).table))),
             Tail(constraints), textCols)

\* the MySQL form of INSERT OR IGNORE and INSERT OR REPLACE
MysqlInserts(toks) ==
    ReplaceAll(ReplaceAll(toks, <<"INSERT", "OR", "IGNORE", "INTO">>, <<"INSERT", "IGNORE", "INTO">>),
               <<"INSERT", "OR", "REPLACE", "INTO">>, <<"REPLACE", "INTO">>)

\* /INSERT\s+OR\s+IGNORE\s+INTO\s+(\w+)\s*\(([^)]+)\)\s*VALUES/gi matches at the
\* start of the text, the column list closing at position close
InsertIgnoreMatch(toks, close) ==
    /\ StartsWith(toks, <<"INSERT", "OR", "IGNORE", "INTO">>)
    /\ IsWord(At(toks, 5))
    /\ close > 0
    /\ At(toks, close + 1) = "VALUES"

\* sql.replace(..., 'INSERT INTO $1 ($2) VALUES ON CONFLICT DO NOTHING')
RECURSIVE PostgresInsertIgnore(_)
PostgresInsertIgnore(toks) ==
    IF toks = <<>> THEN <<>>
    ELSE IF InsertIgnoreMatch(toks, ClosingFrom(toks, AfterOpen(toks, 6)))
         THEN <<"INSERT", "INTO", toks[5], " ", "(">>
              \o SubSeq(toks, AfterOpen(toks, 6), ClosingFrom(toks, AfterOpen(toks, 6)) - 1)
              \o <<")", "VALUES", "ON", "CONFLICT", "DO", "NOTHING">>
              \o PostgresInsertIgnore(DropN(toks, ClosingFrom(toks, AfterOpen(toks, 6)) + 1))
         ELSE <<Head(toks)>> \o PostgresInsertIgnore(Tail(toks))

\* the PostgreSQL form of INSERT OR IGNORE and INSERT OR REPLACE
PostgresInserts(toks) ==
    ReplaceAll(PostgresInsertIgnore(toks), <<"INSERT", "OR", "REPLACE", "INTO">>, <<"INSERT", "INTO">>)

\* sql.replace(/CREATE TABLE (\w+)/g, 'CREATE TABLE IF NOT EXISTS $1')
RECURSIVE AddIfNotExists(_)
AddIfNotExists(toks) ==
    IF toks = <<>> THEN <<>>
    ELSE IF StartsWith(toks, <<"CREATE", "TABLE">>) /\ IsWord(At(toks, 3))
         THEN <<"CREATE", "TABLE", "IF", "NOT", "EXISTS", toks[3]>> \o AddIfNotExists(DropN(toks, 3))
         ELSE <<Head(toks)>> \o AddIfNotExists(Tail(toks))

\* /CREATE INDEX (\w+) ON (\w+)\(([^)]+)\)/g matches at the start of the text
IndexMatch(toks) ==
    /\ StartsWith(toks, <<"CREATE", "INDEX">>)
    /\ IsWord(At(toks, 3))
    /\ At(toks, 4) = "ON"
    /\ IsWord(At(toks, 5))
    /\ At(toks, 6) = "("
    /\ ClosingFrom(toks, 7) > 0

\* the callback for the index on the columns cols of tableName
IndexReplaced(indexName, tableName, cols, names, uniqueNames) ==
    (IF Len(cols) = 1 /\ Len(cols[1]) = 1 /\ cols[1][1] \in uniqueNames
     THEN <<"CREATE", "UNIQUE", "INDEX">> ELSE <<"CREATE", "INDEX">>)
    \o <<indexName, "ON", tableName, "(">>
    \o Joined([k \in DOMAIN cols |-> WithKeyLength(cols[k], names)])
    \o <<")">>

\* the names of the pairs of a sequence that belong to tableName
NamesOfTable(pairs, tableName) == {pairs[k][2] : k \in {i \in DOMAIN pairs : pairs[i][1] = tableName}}

\* sql.replace(/CREATE INDEX (\w+) ON (\w+)\(([^)]+)\)/g, ...)
RECURSIVE AddKeyLengths(_, _, _)
AddKeyLengths(toks, textCols, uniqueCols) ==
    IF toks = <<>> THEN <<>>
    ELSE IF IndexMatch(toks)
         THEN IndexReplaced(toks[3], toks[5], Split(SubSeq(toks, 7, ClosingFrom(toks, 7) - 1), ","),
                            TextColumnsOfTable(textCols, toks[5]),
                            NamesOfTable(uniqueCols, toks[5]))
              \o AddKeyLengths(DropN(toks, ClosingFrom(toks, 7)), textCols, uniqueCols)
         ELSE <<Head(toks)>> \o AddKeyLengths(Tail(toks), textCols, uniqueCols)

\* new RegExp(`CREATE\\s+(?:UNIQUE\\s+)?INDEX\\s+\\w+\\s+ON\\s+${tableName}\\s*\\([^)]*${colName}`, 'i')
\* matches at position p, the word INDEX being at position i
HasIndexAt(toks, p, i, tableName, colName) ==
    /\ At(toks, p) = "CREATE"
    /\ At(toks, i) = "INDEX"
    /\ IsWord(At(toks, i + 1))
    /\ At(toks, i + 2) = "ON"
    /\ At(toks, i + 3) = tableName
    /\ AfterOpen(toks, i + 4) > 0
    /\ \E c \in AfterOpen(toks, i + 4)..Len(toks) :
          /\ toks[c] = colName
          /\ \A j \in AfterOpen(toks, i + 4)..(c - 1) : toks[j] # ")"

\* sql.match(...) of that expression
hasIndex(toks, tableName, colName) ==
    \E p \in DOMAIN toks :
        \/ HasIndexAt(toks, p, p + 1, tableName, colName)
        \/ At(toks, p + 1) = "UNIQUE" /\ HasIndexAt(toks, p, p + 2, tableName, colName)

\* the loop body for one UNIQUE TEXT column
AddUniqueIndex(toks, tableName, colName) ==
    IF hasIndex(toks, tableName, colName) THEN toks
    ELSE AfterCreateTable(toks, tableName,
                          CreateUniqueIndex("idx_" \o tableName \o "_" \o colName \o "_unique",
                                            tableName, <<<<colName, "(", "255", ")">>>>))

\* for (const [tableName, cols] of uniqueTextColumns.entries()) for (const colName of cols)
RECURSIVE AddUniqueIndexes(_, _)
AddUniqueIndexes(toks, uniqueCols) ==
    IF uniqueCols = <<>> THEN toks
    ELSE AddUniqueIndexes(AddUniqueIndex(toks, Head(uniqueCols)[1], Head(uniqueCols)[2]),
                          Tail(uniqueCols))

\* sql.replace(/CREATE INDEX (\w+)/g, 'CREATE INDEX IF NOT EXISTS $1')
RECURSIVE IndexIfNotExists(_)
IndexIfNotExists(toks) ==
    IF toks = <<>> THEN <<>>
    ELSE IF StartsWith(toks, <<"CREATE", "INDEX">>) /\ IsWord(At(toks, 3))
         THEN <<"CREATE", "INDEX", "IF", "NOT", "EXISTS", toks[3]>> \o IndexIfNotExists(DropN(toks, 3))
         ELSE <<Head(toks)>> \o IndexIfNotExists(Tail(toks))

\* the MySQL branch, with the maps read from the text before any replacement
MysqlText(toks, textCols, uniqueCols, constraints) ==
    AddUniqueIndexes(
        AddKeyLengths(
            AddIfNotExists(
                MysqlInserts(
                    AddConstraintIndexes(
                        EscapeReserved(
                            MysqlTypes(
                                RemoveTextDefaults(
                                    CleanCommas(
                                        RemoveUniqueClauses(StripTextUnique(toks),
                                                            TextNames(textCols)))))),
                        constraints, textCols))),
            textCols, uniqueCols),
        uniqueCols)

\* the maps of the MySQL branch
MysqlTranslated(toks, textCols) ==
    MysqlText(toks, textCols, uniqueTextColumns(toks),
              multiColumnUniqueConstraints(tableMatches(toks), textCols))

\* the PostgreSQL branch
PostgresTranslated(toks) == IndexIfNotExists(AddIfNotExists(PostgresInserts(PostgresTypes(toks))))

\* the dialect translation of the content of one migration file
TranslateSql(e, toks) ==
    IF ~(isMySQL(e) \/ isPostgres(e)) THEN toks
    ELSE IF isMySQL(e) THEN MysqlTranslated(toks, textColumns(toks))
    ELSE PostgresTranslated(toks)

(***************************************************************************)
(* Canonical migration files that create the table tasks: the columns id,  *)
(* user_id and day, the TEXT columns email and title in one of several     *)
(* declarations, optionally a column with a foreign key in front of them,  *)
(* a UNIQUE(...) clause and an index.                                      *)
(***************************************************************************)
EmailColumns ==
    {<<"email", "TEXT", "NOT", "NULL", "UNIQUE">>,
     <<"email", "TEXT", "UNIQUE">>,
     <<"email", "TEXT", "UNIQUE", "NOT", "NULL">>,
     <<"email", "TEXT", "NOT", "NULL">>}

TitleColumns ==
    {<<"title", "TEXT">>,
     <<"title", "TEXT", "NOT", "NULL", "DEFAULT", "'todo'">>,
     <<"title", "TEXT", "DEFAULT", "CURRENT_TIMESTAMP">>}

OwnerColumns == {<<>>, <<<<"owner_id", "INTEGER", "REFERENCES", "users", "(", "id", ")">>>>}

UniqueClauses == {<<>>, <<"user_id", "title">>, <<"user_id", "day">>}

IndexColumns == {<<>>, <<"email">>, <<"user_id">>, <<"user_id", "email">>, <<"title", "email">>}

\* ALTER TABLE tasks ADD COLUMN <column definition>;
AddColumn(definition) == <<"ALTER", "TABLE", "tasks", "ADD", "COLUMN">> \o definition \o <<";">>

AlterStatements ==
    {<<>>,
     AddColumn(<<"repeat", "TEXT", "DEFAULT", "'none'">>),
     AddColumn(<<"order", "INTEGER", "DEFAULT", "0">>),
     AddColumn(<<"priority", "INTEGER", "DEFAULT", "0">>)}

\* INSERT OR IGNORE INTO tasks (id, title) VALUES (1, 'todo');
InsertIgnore ==
    <<"INSERT", "OR", "IGNORE", "INTO", "tasks", " ", "(", "id", ",", "title", ")",
      "VALUES", " ", "(", "1", ",", "'todo'", ")", ";">>

InsertStatements == {<<>>, InsertIgnore}

\* files that create the table, with every declaration of its columns
TableFiles ==
    [table : {TRUE}, qualified : {FALSE},
     email : EmailColumns, title : TitleColumns, owner : OwnerColumns,
     unique : UniqueClauses, index : IndexColumns, spaced : BOOLEAN,
     alter : {<<>>}, insert : {<<>>}]

\* files that alter the table, fill it or index it, in the same file as its
\* CREATE TABLE or in a later one, written with or without IF NOT EXISTS
LaterFiles ==
    [table : BOOLEAN, qualified : BOOLEAN,
     email : {<<"email", "TEXT", "UNIQUE">>}, title : {<<"title", "TEXT">>}, owner : {<<>>},
     unique : {<<>>}, index : {<<>>, <<"title">>, <<"user_id", "title">>}, spaced : {FALSE},
     alter : AlterStatements, insert : InsertStatements]

MigrationFiles ==
    {m \in TableFiles \cup LaterFiles :
        /\ m.spaced => m.index # <<>>
        /\ m.table \/ m.index # <<>> \/ m.alter # <<>> \/ m.insert # <<>>}

\* the column definitions of the table, in the order of the file
Columns(m) ==
    <<<<"id", "INTEGER", "PRIMARY", "KEY", "AUTOINCREMENT">>,
      <<"user_id", "INTEGER", "NOT", "NULL">>>>
    \o m.owner
    \o <<m.email, m.title, <<"day", "DATE">>>>

\* a list of names as the text of a parenthesised list
NameList(names) == <<"(">> \o Joined([k \in DOMAIN names |-> <<names[k]>>]) \o <<")">>

\* the lines between the parentheses of CREATE TABLE
TableBody(m) ==
    Columns(m) \o (IF m.unique = <<>> THEN <<>> ELSE <<<<"UNIQUE">> \o NameList(m.unique)>>)

\* IF NOT EXISTS, where the author of the file wrote it
Qualifier(m) == IF m.qualified THEN <<"IF", "NOT", "EXISTS">> ELSE <<>>

\* the CREATE TABLE statement of the file
TableStatement(m) ==
    IF ~m.table THEN <<>>
    ELSE <<"CREATE", "TABLE">> \o Qualifier(m) \o <<"tasks", " ", "(">>
         \o Joined(TableBody(m)) \o <<")", ";">>

\* the CREATE INDEX statement of the file
IndexStatement(m) ==
    IF m.index = <<>> THEN <<>>
    ELSE <<"CREATE", "INDEX">> \o Qualifier(m) \o <<"idx_tasks_lookup", "ON", "tasks">>
         \o (IF m.spaced THEN <<" ">> ELSE <<>>)
         \o NameList(m.index) \o <<";">>

\* readFileSync(migration.path, 'utf-8')
Content(m) == TableStatement(m) \o IndexStatement(m) \o m.alter \o m.insert

TranslateInit ==
    /\ migration \in MigrationFiles
    /\ sql = Content(migration)
    /\ translated = FALSE

TranslateParked ==
    /\ migration = [table |-> TRUE, qualified |-> FALSE,
                    email |-> <<"email", "TEXT", "NOT", "NULL">>, title |-> <<"title", "TEXT">>,
                    owner |-> <<>>, unique |-> <<>>, index |-> <<>>, spaced |-> FALSE,
                    alter |-> <<>>, insert |-> <<>>]
    /\ sql = <<>>
    /\ translated = TRUE

\* the dialect translation of the file that was read
TranslateFile ==
    /\ ~translated
    /\ sql' = TranslateSql(env, sql)
    /\ translated' = TRUE
    /\ UNCHANGED <<migration, runnerVars, batchVars, callVars, bindVars, runVars, applyVars,
                   execVars, selectVars>>

(***************************************************************************)
(* Applying a translated file: scripts/migrate.ts, the body of the loop    *)
(* over the migration files after the translation.  The database is the    *)
(* set of the names of its tables, indexes and added columns.  A run that  *)
(* failed is started again by the operator; the file is then read and      *)
(* translated again.                                                       *)
(***************************************************************************)
MaxReruns == 2

ConnectionLost == "PROTOCOL_CONNECTION_LOST"

\* s.trim() is not the empty string
NonEmpty(s) == \E i \in DOMAIN s : s[i] # " "

\* sql.split(';').filter(s => s.trim())
statementsOf(toks) == SelectSeq(Split(toks, ";"), NonEmpty)

\* statement.match(/CREATE\s+INDEX\s+(\w+)\s+ON/i)
indexMatchIn(statement) ==
    \E i \in DOMAIN statement :
        /\ statement[i] = "CREATE"
        /\ At(statement, i + 1) = "INDEX"
        /\ IsWord(At(statement, i + 2))
        /\ At(statement, i + 3) = "ON"

\* statement.match(/ALTER\s+TABLE\s+(\w+)\s+ADD\s+COLUMN\s+(\w+)/i)
alterTableMatchIn(statement) ==
    \E i \in DOMAIN statement :
        /\ statement[i] = "ALTER"
        /\ At(statement, i + 1) = "TABLE"
        /\ IsWord(At(statement, i + 2))
        /\ At(statement, i + 3) = "ADD"
        /\ At(statement, i + 4) = "COLUMN"
        /\ IsWord(At(statement, i + 5))

\* the catch clauses of the two try blocks: the error is logged and the loop continues
Skipped(statement, error) ==
    IF indexMatchIn(statement) THEN error = "ER_DUP_KEYNAME"
    ELSE IF alterTableMatchIn(statement) THEN error = "ER_DUP_FIELDNAME"
    ELSE FALSE

\* the engine: the position of the name of the object that the statement creates
NamePosition(statement) ==
    IF At(statement, 1) = "ALTER"
    THEN (IF At(statement, 6) = BackQuote THEN 7 ELSE 6)
    ELSE IF At(statement, 2) = "UNIQUE"
         THEN (IF At(statement, 4) = "IF" THEN 7 ELSE 4)
         ELSE (IF At(statement, 3) = "IF" THEN 6 ELSE 3)

ObjectName(statement) == At(statement, NamePosition(statement))

\* the engine: the statement says IF NOT EXISTS
Conditional(statement) ==
    \E i \in DOMAIN statement :
        statement[i] = "IF" /\ At(statement, i + 1) = "NOT" /\ At(statement, i + 2) = "EXISTS"

\* the engine: the error code for an object that exists already
DuplicateError(adapter, statement) ==
    IF adapter # "mysql" THEN "already exists"
    ELSE IF At(statement, 1) = "ALTER" THEN "ER_DUP_FIELDNAME"
    ELSE IF "INDEX" \in {At(statement, 2), At(statement, 3)} THEN "ER_DUP_KEYNAME"
    ELSE "ER_TABLE_EXISTS_ERROR"

\* the engine: the error with which it answers the statement, "" if it applies it
EngineError(adapter, statement, objs) ==
    IF ObjectName(statement) \notin objs \/ Conditional(statement) THEN ""
    ELSE DuplicateError(adapter, statement)

\* PostgreSQL and SQLite, db.exec(sql): the statements in order up to the first error
RECURSIVE ExecAll(_, _, _, _)
ExecAll(adapter, stmtsLeft, objs, done) ==
    IF stmtsLeft = <<>> THEN [objects |-> objs, error |-> "", done |-> done]
    ELSE IF EngineError(adapter, Head(stmtsLeft), objs) # ""
         THEN [objects |-> objs, error |-> EngineError(adapter, Head(stmtsLeft), objs),
               done |-> done]
         ELSE ExecAll(adapter, Tail(stmtsLeft), objs \cup {ObjectName(Head(stmtsLeft))},
                      done + 1)

\* the files that are applied: their translation is accepted by every engine
ApplyFiles ==
    {m \in MigrationFiles :
        /\ ~m.qualified /\ ~m.spaced /\ m.owner = <<>> /\ m.insert = <<>>
        /\ m.title # <<"title", "TEXT", "DEFAULT", "CURRENT_TIMESTAMP">>
        /\ m.alter # AddColumn(<<"order", "INTEGER", "DEFAULT", "0">>)
        /\ (m.index # <<>> => m.table)}

ApplyInit ==
    /\ migration \in ApplyFiles
    /\ sql = Content(migration)
    /\ translated = FALSE
    /\ objects = IF migration.table THEN {} ELSE {"tasks"}
    /\ position = 0
    /\ failure = ""
    /\ recorded = FALSE
    /\ reruns = 0

ApplyParked ==
    /\ objects = {}
    /\ position = 0
    /\ failure = ""
    /\ recorded = TRUE
    /\ reruns = 0

\* the connection to the engine can be lost as long as the operator starts the runner again
CanInterrupt == reruns < MaxReruns

EngineAnswers(adapter, statement, objs) ==
    {EngineError(adapter, statement, objs)}
        \cup (IF CanInterrupt THEN {ConnectionLost} ELSE {})

\* one iteration of for (const statement of statements) with the answer of the engine
Iteration(statement, error) ==
    IF error = ""
    THEN /\ objects' = objects \cup {ObjectName(statement)}
         /\ position' = position + 1
         /\ UNCHANGED failure
    ELSE IF Skipped(statement, error)
         THEN /\ position' = position + 1
              /\ UNCHANGED <<objects, failure>>
         ELSE /\ failure' = error
              /\ UNCHANGED <<objects, position>>

\* if (isMySQL): one statement of the file
ApplyStatement ==
    /\ translated /\ isMySQL(env)
    /\ failure = "" /\ ~recorded
    /\ position < Len(statementsOf(sql))
    /\ \E error \in EngineAnswers("mysql", statementsOf(sql)[position + 1], objects) :
          Iteration(statementsOf(sql)[position + 1], error)
    /\ UNCHANGED <<recorded, reruns, translateVars, runnerVars, batchVars, callVars, bindVars,
                   runVars, execVars, selectVars>>

\* what db.exec(sql) has done when the connection is lost before statement limit + 1
Interrupted(result, limit, total) ==
    /\ objects' = result.objects
    /\ position' = result.done
    /\ failure' = IF result.error = "" /\ limit < total THEN ConnectionLost ELSE result.error

\* else: await db.exec(sql), PostgreSQL and SQLite
ApplyAll ==
    /\ translated /\ ~isMySQL(env)
    /\ failure = "" /\ ~recorded
    /\ position < Len(statementsOf(sql))
    /\ \E limit \in (IF CanInterrupt THEN 0..Len(statementsOf(sql)) ELSE {Len(statementsOf(sql))}) :
          Interrupted(ExecAll(SelectAdapter(env), SubSeq(statementsOf(sql), 1, limit), objects, 0),
                      limit, Len(statementsOf(sql)))
    /\ UNCHANGED <<recorded, reruns, translateVars, runnerVars, batchVars, callVars, bindVars,
                   runVars, execVars, selectVars>>

\* INSERT INTO _migrations (migration_number) VALUES (?)
RecordApplied ==
    /\ translated
    /\ failure = "" /\ ~recorded
    /\ position = Len(statementsOf(sql))
    /\ \/ recorded' = TRUE /\ UNCHANGED failure
       \/ CanInterrupt /\ failure' = ConnectionLost /\ UNCHANGED recorded
    /\ UNCHANGED <<objects, position, reruns, translateVars, runnerVars, batchVars, callVars,
                   bindVars, runVars, execVars, selectVars>>

\* process.exit(1), and the runner is started again: the file is not in
\* _migrations, it is read and translated again
Rerun ==
    /\ failure # ""
    /\ reruns < MaxReruns
    /\ reruns' = reruns + 1
    /\ position' = 0
    /\ failure' = ""
    /\ sql' = Content(migration)
    /\ translated' = FALSE
    /\ UNCHANGED <<objects, recorded, migration, runnerVars, batchVars, callVars, bindVars,
                   runVars, execVars, selectVars>>

ApplyNext == TranslateFile \/ ApplyStatement \/ ApplyAll \/ RecordApplied \/ Rerun


(***************************************************************************)
(* exec(query) of the three adapters.  The query is a text of tokens; a    *)
(* string literal that holds a semicolon is the three tokens 'a ; b', so   *)
(* that split(';') cuts it where the code cuts it.  The engine rejects a   *)
(* text that holds the word bad or a part of a string literal.             *)
(***************************************************************************)
MaxExecs == 2

OpenQuote == "'a"

CloseQuote == "b'"

Queries ==
    {<<>>, <<" ">>, <<"s1">>, <<"bad">>,
     <<"s1", ";", "s2", ";">>,
     <<"s1", ";", " ", ";", "s2">>,
     <<"s1", ";", "bad", ";", "s2">>,
     <<"s1", ";", "s2", ";", "bad">>,
     <<"s1", OpenQuote, ";", CloseQuote, ";", "s2">>}

\* the number of tokens t among the first n tokens of the text
Count(toks, n, t) == Cardinality({j \in 1..n : toks[j] = t})

\* the engine: the error with which it answers the text, "" if it applies it
Answer(text) ==
    IF Count(text, Len(text), "bad") > 0 THEN "ER_BAD_FIELD_ERROR"
    ELSE IF Count(text, Len(text), OpenQuote) # Count(text, Len(text), CloseQuote)
         THEN "ER_PARSE_ERROR"
         ELSE ""

\* one call of exec: const statements = query.split(';').filter(s => s.trim())
NewCall(query, state) ==
    [query |-> query, statements |-> statementsOf(query), at |-> 0, state |-> state,
     error |-> "", acquired |-> 0, released |-> 0]

\* a release that only the normal end of the try block makes
ReleasesOnReturn(state) == IF state = "returned" THEN 1 ELSE 0

\* finally { connection.release() }: the calls of release when the try block ends in state
Releases(state) == 1

\* the end of the call: the try block is left, exec returns or raises
Ended(c, state, error, at) ==
    /\ calls' = [calls EXCEPT ![c].state = state, ![c].error = error, ![c].at = at,
                              ![c].released = @ + calls[c].acquired * Releases(state)]
    /\ pool' = pool - calls[c].acquired * Releases(state)

\* NodeD1Database.exec runs without await: the statements in order up to the first error
RECURSIVE RunAll(_, _)
RunAll(stmtsLeft, done) ==
    IF stmtsLeft = <<>> THEN [done |-> done, error |-> ""]
    ELSE IF Answer(Head(stmtsLeft)) # "" THEN [done |-> done, error |-> Answer(Head(stmtsLeft))]
    ELSE RunAll(Tail(stmtsLeft), done + 1)

\* the entries of the history for the first n statements of call c
AppliedBy(c, stmtsOf, n) == [k \in 1..n |-> <<c, stmtsOf[k]>>]

SqliteCall(c, query, result) ==
    /\ calls' = Append(calls, [NewCall(query, IF result.error = "" THEN "returned" ELSE "raised")
                                  EXCEPT !.at = result.done, !.error = result.error])
    /\ applied' = applied \o AppliedBy(c, statementsOf(query), result.done)

\* the caller calls exec(query): the code up to the first await
ExecCall ==
    /\ Len(calls) < MaxExecs
    /\ \E query \in Queries :
          IF execAdapter = "sqlite"
          THEN SqliteCall(Len(calls) + 1, query, RunAll(statementsOf(query), 0))
          ELSE /\ calls' = Append(calls,
                       NewCall(query, IF execAdapter = "mysql" THEN "connecting"
                                      ELSE IF statementsOf(query) = <<>> THEN "returned"
                                      ELSE "running"))
               /\ UNCHANGED applied
    /\ UNCHANGED <<execAdapter, pool, runnerVars, batchVars, callVars, bindVars, runVars,
                   translateVars, applyVars, selectVars>>

\* MySQL: await this.pool.getConnection() gives a connection or rejects
Connect(c) ==
    /\ calls[c].state = "connecting"
    /\ \/ /\ calls[c].statements # <<>>
          /\ calls' = [calls EXCEPT ![c].state = "running", ![c].acquired = 1]
          /\ pool' = pool + 1
       \/ /\ calls[c].statements = <<>>
          /\ calls' = [calls EXCEPT ![c].state = "returned", ![c].acquired = 1,
                                    ![c].released = Releases("returned")]
          /\ pool' = pool + 1 - Releases("returned")
       \/ /\ calls' = [calls EXCEPT ![c].state = "raised", ![c].error = "ECONNREFUSED"]
          /\ UNCHANGED pool
    /\ UNCHANGED <<execAdapter, applied, runnerVars, batchVars, callVars, bindVars, runVars,
                   translateVars, applyVars, selectVars>>

\* await connection.execute(statement), await this.pool.query(statement): the
\* answer of the engine to the next statement
ExecuteNext(c) ==
    /\ calls[c].state = "running"
    /\ IF Answer(calls[c].statements[calls[c].at + 1]) # ""
       THEN /\ Ended(c, "raised", Answer(calls[c].statements[calls[c].at + 1]), calls[c].at)
            /\ UNCHANGED applied
       ELSE /\ applied' = Append(applied, <<c, calls[c].statements[calls[c].at + 1]>>)
            /\ IF calls[c].at + 1 = Len(calls[c].statements)
               THEN Ended(c, "returned", "", calls[c].at + 1)
               ELSE /\ calls' = [calls EXCEPT ![c].at = @ + 1]
                    /\ UNCHANGED pool
    /\ UNCHANGED <<execAdapter, runnerVars, batchVars, callVars, bindVars, runVars,
                   translateVars, applyVars, selectVars>>

ExecInit ==
    /\ execAdapter \in {"sqlite", "postgres", "mysql"}
    /\ pool = 0
    /\ calls = <<>>
    /\ applied = <<>>

ExecParked ==
    /\ execAdapter = "sqlite"
    /\ pool = 0
    /\ calls = <<>>
    /\ applied = <<>>

ExecNext ==
    \/ ExecCall
    \/ \E c \in 1..MaxExecs : c \in DOMAIN calls /\ Connect(c)
    \/ \E c \in 1..MaxExecs : c \in DOMAIN calls /\ ExecuteNext(c)


(***************************************************************************)
(* The choice of the engine: getEnv of the server (src/server/index.ts)    *)
(* and the head of the migration runner, both reading the same .env.       *)
(***************************************************************************)
Configs ==
    [DB_TYPE : {"mysql", ""}, DB_USER : {"", "app"}, DB_PASSWORD : {"", "secret"},
     DB_NAME : {"", "focus"}, DATABASE_URL : {"", "postgres://db"}]

\* getEnv: the adapter of the server, "Error" where getEnv throws
getEnv(e) ==
    IF e.DB_TYPE = "mysql" \/ (e.DB_USER # "" /\ e.DB_PASSWORD # "" /\ e.DB_NAME # "")
    THEN (IF e.DB_USER = "" \/ e.DB_PASSWORD = "" \/ e.DB_NAME = "" THEN "Error" ELSE "mysql")
    ELSE IF e.DATABASE_URL # "" THEN "postgres"
    ELSE "sqlite"

\* id ${isMySQL ? ... : isPostgres ? ... : ...}: the dialect of the bookkeeping table
BookkeepingDialect(e) ==
    IF isMySQL(e) THEN "mysql" ELSE IF isPostgres(e) THEN "postgres" ELSE "sqlite"

\* if (isMySQL || isPostgres) { if (isMySQL) ... else if (isPostgres) ... }: the
\* dialect into which a file is translated
TranslationDialect(e) ==
    IF ~(isMySQL(e) \/ isPostgres(e)) THEN "sqlite"
    ELSE IF isMySQL(e) THEN "mysql"
    ELSE "postgres"

SelectInit ==
    /\ config \in Configs
    /\ serverDb = ""
    /\ runnerDb = ""
    /\ ddlDialect = ""
    /\ sqlDialect = ""

SelectParked ==
    /\ config = [DB_TYPE |-> "", DB_USER |-> "", DB_PASSWORD |-> "", DB_NAME |-> "",
                 DATABASE_URL |-> ""]
    /\ serverDb = "sqlite"
    /\ runnerDb = "sqlite"
    /\ ddlDialect = "sqlite"
    /\ sqlDialect = "sqlite"

\* the server process starts: const env = await getEnv()
ServerStart ==
    /\ serverDb = ""
    /\ serverDb' = getEnv(config)
    /\ UNCHANGED <<config, runnerDb, ddlDialect, sqlDialect, runnerVars, batchVars, callVars,
                   bindVars, runVars, translateVars, applyVars, execVars>>

\* the runner starts: let db = new MysqlD1Database | PostgresD1Database | NodeD1Database
RunnerStart ==
    /\ runnerDb = ""
    /\ runnerDb' = SelectAdapter(config)
    /\ UNCHANGED <<config, serverDb, ddlDialect, sqlDialect, runnerVars, batchVars, callVars,
                   bindVars, runVars, translateVars, applyVars, execVars>>

\* await db.exec(`CREATE TABLE IF NOT EXISTS _migrations (...)`)
RunnerBookkeeping ==
    /\ runnerDb # ""
    /\ ddlDialect = ""
    /\ ddlDialect' = BookkeepingDialect(config)
    /\ UNCHANGED <<config, serverDb, runnerDb, sqlDialect, runnerVars, batchVars, callVars,
                   bindVars, runVars, translateVars, applyVars, execVars>>

\* the translation of a pending file, with the flags read again from process.env
RunnerTranslation ==
    /\ ddlDialect # ""
    /\ sqlDialect = ""
    /\ sqlDialect' = TranslationDialect(config)
    /\ UNCHANGED <<config, serverDb, runnerDb, ddlDialect, runnerVars, batchVars, callVars,
                   bindVars, runVars, translateVars, applyVars, execVars>>

SelectNext == ServerStart \/ RunnerStart \/ RunnerBookkeeping \/ RunnerTranslation


(***************************************************************************)
(* Specifications.                                                         *)
(***************************************************************************)
RunnerParked ==
    /\ RunnerInit("parked", {{}})
    /\ env = [DB_TYPE |-> "", DATABASE_URL |-> ""]
    /\ initial = Fresh

Directories == SUBSET FilePool

Init ==
    /\ RunnerInit("sequential", Directories)
    /\ BatchParked /\ CallParked /\ BindParked /\ RunParked
    /\ TranslateParked /\ ApplyParked /\ ExecParked /\ SelectParked

Next ==
    \E r \in Runners :
        \/ Start(r)
        \/ EnsureTable(r)
        \/ LoadApplied(r)
        \/ SkipApplied(r)
        \/ BeginMigration(r)
        \/ ExecStatement(r)
        \/ RecordMigration(r)
        \/ Finish(r)

\* two runs of the migration runner, the second started after the first ended
Spec == Init /\ [][Next]_vars

ConcInit ==
    /\ RunnerInit("concurrent", Directories)
    /\ BatchParked /\ CallParked /\ BindParked /\ RunParked
    /\ TranslateParked /\ ApplyParked /\ ExecParked /\ SelectParked

\* two runner processes on the same database
SpecConcurrent == ConcInit /\ [][Next]_vars

InitBatch == RunnerParked /\ BatchInit /\ CallParked /\ BindParked /\ RunParked
    /\ TranslateParked /\ ApplyParked /\ ExecParked /\ SelectParked

\* one Database.batch call
SpecBatch == InitBatch /\ [][BatchNext]_vars

InitCall == RunnerParked /\ BatchParked /\ CallInit /\ BindParked /\ RunParked
    /\ TranslateParked /\ ApplyParked /\ ExecParked /\ SelectParked

\* one call of first, run, all, raw or exec
SpecCall == InitCall /\ [][Execute]_vars

InitBind == RunnerParked /\ BatchParked /\ CallParked /\ BindInit /\ RunParked
    /\ TranslateParked /\ ApplyParked /\ ExecParked /\ SelectParked

\* bind calls on the statements that come from one prepare
SpecBind == InitBind /\ [][BindNext]_vars

InitRun == RunnerParked /\ BatchParked /\ CallParked /\ BindParked /\ RunInit
    /\ TranslateParked /\ ApplyParked /\ ExecParked /\ SelectParked

\* run() and all() calls on one database
SpecRun == InitRun /\ [][RunNext]_vars

InitTranslate ==
    /\ RunnerInit("parked", {{}})
    /\ initial = Fresh
    /\ BatchParked /\ CallParked /\ BindParked /\ RunParked
    /\ TranslateInit /\ ApplyParked /\ ExecParked /\ SelectParked

\* the dialect translation of one migration file
SpecTranslate == InitTranslate /\ [][TranslateFile]_vars

InitApply ==
    /\ RunnerInit("parked", {{}})
    /\ initial = Fresh
    /\ BatchParked /\ CallParked /\ BindParked /\ RunParked
    /\ ApplyInit /\ ExecParked /\ SelectParked

\* one migration file is translated and applied, by a runner that is started
\* again after a failure
SpecApply == InitApply /\ [][ApplyNext]_vars

InitExec == RunnerParked /\ BatchParked /\ CallParked /\ BindParked /\ RunParked
    /\ TranslateParked /\ ApplyParked /\ ExecInit /\ SelectParked

\* exec calls on one adapter
SpecExec == InitExec /\ [][ExecNext]_vars

InitSelect == RunnerParked /\ BatchParked /\ CallParked /\ BindParked /\ RunParked
    /\ TranslateParked /\ ApplyParked /\ ExecParked /\ SelectInit

\* the server and the migration runner start with the same configuration
SpecSelect == InitSelect /\ [][SelectNext]_vars

(***************************************************************************)
(* Properties of the migration runner.                                     *)
(***************************************************************************)
NumberOf(file) == ParseInt(NumberPart(file))

ExecutedBy(r) == {e \in executed : e[1] = r}
InsertedBy(r) == {i \in inserted : i[1] = r}

NoDuplicateRows(tbl) == \A i, j \in DOMAIN tbl : i # j => tbl[i] # tbl[j]

GoodOutcomes == {"ok", "dup_column", "dup_index"}

\* C1: a second run after the first skips every migration whose number is
\* already recorded without executing any of its statements; after a first
\* run that completed, the second run leaves the bookkeeping table and the
\* schema as they were and does not fail in its loop; the table never holds
\* two rows for one migration number.
C1_RunTwiceIdempotent ==
    snap.taken =>
        /\ \A e \in ExecutedBy(2) : NumberOf(e[2]) \notin Range(snap.table)
        /\ NoDuplicateRows(table)
        /\ pc[1] = "done" =>
            /\ ExecutedBy(2) = {}
            /\ table = snap.table
            /\ schema = snap.schema
            /\ seedRows = snap.seedRows
            /\ pc[2] = "failed" => errorAt[2].phase \in {"ensure", "load"}

C1_Witness ==
    /\ initial = Fresh
    /\ pc[1] = "done"
    /\ pc[2] = "done"
    /\ Len(table) >= 2
    /\ seedRows = 1

\* C2: once a statement of migration n raised an error that the runner does
\* not tolerate, the run is Failed, the run has executed no statement of a
\* migration above n and has inserted no row for n or above.
C2_FailFast ==
    \A r \in Runners :
        errorAt[r].phase = "exec" =>
            /\ pc[r] = "failed"
            /\ \A e \in ExecutedBy(r) : NumberOf(e[2]) <= NumberOf(errorAt[r].file)
            /\ \A i \in InsertedBy(r) : i[2] < NumberOf(errorAt[r].file)

C2_Witness ==
    \E r \in Runners :
        /\ pc[r] = "failed"
        /\ errorAt[r].phase = "exec"
        /\ idx[r] < Len(files[r])
        /\ InsertedBy(r) # {}

\* C3: a row is inserted by a run only after every statement of that
\* migration got "ok" or a tolerated duplicate error from the engine in that
\* run; the table holds the rows it started with and the inserted ones; the
\* migration at which a run failed is not recorded by that run.
C3_RecordedOnlyAfterAllStatements ==
    /\ \A i \in inserted :
         \E f \in directory :
            /\ MatchesNumberSql(f)
            /\ NumberOf(f) = i[2]
            /\ \A k \in DOMAIN MigrationSQL(f) :
                 \E o \in GoodOutcomes : <<i[1], f, k, o>> \in executed
    /\ Range(table) = Range(initial.table) \cup {i[2] : i \in inserted}
    /\ \A r \in Runners :
         errorAt[r].phase \in {"exec", "record"} =>
            <<r, NumberOf(errorAt[r].file)>> \notin inserted

C3_Witness ==
    \E r \in Runners :
        /\ pc[r] = "failed"
        /\ errorAt[r].phase = "exec"
        /\ InsertedBy(r) # {}
        /\ \E e \in ExecutedBy(r) : e[4] = "dup_column"

\* C4 (as claimed): no run fails because a column that a pending migration
\* adds already exists, whatever the adapter.
C4_DuplicateColumnToleratedEverywhere ==
    \A r \in Runners : errorAt[r].cause # "dup_column"

\* C5: with two concurrent runners the bookkeeping table never holds two rows
\* with the same migration_number.
C5_UniqueMigrationNumbers == NoDuplicateRows(table)

C5_Witness ==
    \E r \in Runners :
        /\ errorAt[r].cause = "unique"
        /\ NumberOf(errorAt[r].file) \in Range(table)

\* C6 (as claimed): the statements of a migration are not executed by both
\* runners: no statement of a migration is run to success by one runner and
\* by the other.
C6_NoDoubleApplication ==
    \A e1, e2 \in executed :
        (e1[2] = e2[2] /\ e1[3] = e2[3] /\ e1[4] = "ok" /\ e2[4] = "ok") => e1[1] = e2[1]

\* C6 (amended): the uniqueness constraint prevents double recording, not
\* double application: at most one runner inserts the row of a migration, and
\* a runner whose insert is rejected is Failed and has not recorded it.
C6_SingleRecorder ==
    /\ \A i1, i2 \in inserted : i1[2] = i2[2] => i1[1] = i2[1]
    /\ \A r \in Runners :
         errorAt[r].cause = "unique" =>
            /\ pc[r] = "failed"
            /\ <<r, NumberOf(errorAt[r].file)>> \notin inserted
            /\ \E q \in Runners \ {r} : <<q, NumberOf(errorAt[r].file)>> \in inserted

C6_Witness ==
    \E e1, e2 \in executed :
        /\ e1[2] = e2[2]
        /\ e1[3] = e2[3]
        /\ e1[4] = "ok"
        /\ e2[4] = "ok"
        /\ e1[1] # e2[1]
        /\ errorAt[e2[1]].cause = "unique"
        /\ <<e1[1], NumberOf(e1[2])>> \in inserted

\* C7: a statement of a migration is executed only when every migration that
\* was pending for that run and has a smaller number (as an integer) is
\* recorded; only files named <integer>.sql without 'down' are ever executed.
C7_AscendingNumericOrder ==
    \A e \in executed :
        /\ e[2] \in directory
        /\ MatchesNumberSql(e[2])
        /\ ~Includes(e[2], Down)
        /\ \A f \in directory :
             ( /\ MatchesNumberSql(f)
               /\ NumberOf(f) < NumberOf(e[2])
               /\ NumberOf(f) \notin appliedNumbers[e[1]] )
             => NumberOf(f) \in Range(table)

C7_Witness ==
    /\ {File_2, File_10, File_2down, File_v3} \subseteq directory
    /\ \E e \in executed :
         /\ e[2] = File_10
         /\ <<e[1], 2>> \in inserted

(***************************************************************************)
(* Properties of the adapters.                                             *)
(***************************************************************************)
\* C8 (as claimed): in a batch, statement i+1 starts on the engine only after
\* statement i has finished.
C8_BatchExecutesInOrder ==
    \A k \in DOMAIN blog :
        (blog[k][1] = "start" /\ blog[k][2] > 1) =>
            \E j \in 1..(k - 1) : blog[j] = <<"end", blog[k][2] - 1>>

\* C9 (as claimed): a call whose statement fails on the engine raises that
\* error to its caller, on every adapter and for every method.
C9_FailuresAreRaised ==
    (outcome # NoOutcome /\ ~call.reply.ok) => outcome = Throw(call.reply.error)

\* C10: first() on a successful execution returns null on zero rows, else the
\* first row, or the named column's value of the first row, null when that
\* value is null or the column is absent; it never throws.
C10_FirstContract ==
    (outcome # NoOutcome /\ call.method = "first" /\ call.reply.ok) =>
        LET rows == call.reply.rows
            c == call.colName
        IN  IF rows = <<>> THEN outcome = ReturnNull
            ELSE IF c = Undefined THEN outcome = ReturnRow(rows[1])
            ELSE IF c \in DOMAIN rows[1] /\ rows[1][c] # Null
                 THEN outcome = ReturnValue(rows[1][c])
                 ELSE outcome = ReturnNull

C10_Witness ==
    /\ outcome.kind = "value"
    /\ outcome.val = "str:"
    /\ call.method = "first"
    /\ call.colName = "title"
    /\ call.adapter = "mysql"
    /\ Len(call.reply.rows) = 2

(***************************************************************************)
(* Properties of bind and of the value coercion.                           *)
(***************************************************************************)
\* the values given to the bind calls that led to statement k, in order
RECURSIVE PathArgs(_)
PathArgs(k) ==
    IF stmts[k].parent = 0 THEN <<>>
    ELSE PathArgs(stmts[k].parent) \o stmts[k].args

Bound == {k \in DOMAIN stmts : stmts[k].bound}

\* 'YYYY-MM-DD HH:MM:SS'
LiteralPattern ==
    <<"d", "d", "d", "d", "-", "d", "d", "-", "d", "d", " ",
      "d", "d", ":", "d", "d", ":", "d", "d">>

IsLiteral(v) ==
    /\ v.t = "string"
    /\ Len(v.s) = Len(LiteralPattern)
    /\ MatchesPrefix(v.s, LiteralPattern)

\* the time value that a literal denotes in the time zone of the process
LiteralInstant(chars, zone) ==
    Shift(DaysFromCivil(ParseInt(SubSeq(chars, 1, 4)), ParseInt(SubSeq(chars, 6, 7)),
                        ParseInt(SubSeq(chars, 9, 10))),
          ParseInt(SubSeq(chars, 12, 13)) * 3600 + ParseInt(SubSeq(chars, 15, 16)) * 60
              + ParseInt(SubSeq(chars, 18, 19)),
          0 - zone * 60)

IsoShaped(v) == v.t = "string" /\ MatchesPrefix(v.s, IsoDateTimePattern)

\* the value is a timestamp that new Date can read
Parseable(v, zone) ==
    \/ v.t = "date" /\ ~v.nan
    \/ IsoShaped(v) /\ ~DateParse(v.s, zone).nan

Instant(d) == [days |-> d.n, sod |-> d.sod]

\* the time value of a timestamp, to the second
InstantOf(v, zone) == Instant(AsDate(v, zone))

\* C11: a statement made by a chain of bind calls dispatches the parameter
\* list that a single bind of all the values, in the order they were given,
\* dispatches; the list of a statement begins with the list of the statement
\* it was made from, which is still that statement's list; a bind in a chain
\* aborts only if the single bind aborts.
C11_BindIncremental ==
    /\ \A k \in Bound :
         /\ ~BindValues(bindAdapter, Prepared, PathArgs(k), tz).threw
         /\ stmts[k].values = BindValues(bindAdapter, Prepared, PathArgs(k), tz).vals
         /\ Len(stmts[k].values) = Len(PathArgs(k))
         /\ stmts[k].parent \in Bound =>
              SubSeq(stmts[k].values, 1, Len(stmts[stmts[k].parent].values))
                  = stmts[stmts[k].parent].values
    /\ \A a \in aborted :
         BindValues(bindAdapter, Prepared, PathArgs(a[1]) \o a[2], tz).threw

C11_Witness ==
    \E k \in Bound :
        /\ bindAdapter = "mysql"
        /\ tz = 330
        /\ stmts[k].parent \in Bound
        /\ stmts[stmts[k].parent].args = <<NativeDate>>
        /\ stmts[k].args = <<JsNaN, StrX, JsUndefined>>
        /\ Len(stmts[k].values) = 4

\* C15 (as claimed): on every adapter each NaN of the bound values is
\* dispatched as 0 and each undefined as null, at the same position, and the
\* numbers, the null and the plain strings are dispatched as they are.
C15_CoercionOnEveryAdapter ==
    \A k \in Bound :
        /\ Len(stmts[k].values) = Len(PathArgs(k))
        /\ \A p \in DOMAIN PathArgs(k) :
             LET v == PathArgs(k)[p]
             IN  IF v = JsNaN THEN stmts[k].values[p] = JsNum(0)
                 ELSE IF v = JsUndefined THEN stmts[k].values[p] = JsNull
                 ELSE v \in {JsNum(5), JsNull, StrX} => stmts[k].values[p] = v

C17_BindNeverAborts ==
    /\ aborted = {}
    /\ \A k \in Bound :
         \A p \in DOMAIN PathArgs(k) :
            LET v == PathArgs(k)[p]
            IN  ((v.t = "date" \/ IsoShaped(v)) /\ ~Parseable(v, tz))
                    => stmts[k].values[p] = v

\* C18 (as claimed): on MySQL a UTC timestamp string is dispatched as the
\* literal that carries its own year, month, day, hour, minute and second,
\* whatever the time zone of the process, and the literal read back in that
\* time zone is the instant of the string to the second and is coerced to
\* the same literal.
C18_RoundTripSecondPrecision ==
    bindAdapter = "mysql" =>
        \A k \in Bound :
            \A p \in DOMAIN PathArgs(k) :
                LET v == PathArgs(k)[p]
                    d == stmts[k].values[p]
                    back == LiteralInstant(d.s, tz)
                IN  ( /\ IsoShaped(v)
                      /\ IsoSuffix(SubSeq(v.s, 20, Len(v.s))).utc
                      /\ Parseable(v, tz) )
                    => /\ d = JsStr(SubSeq(v.s, 1, 10) \o <<" ">> \o SubSeq(v.s, 12, 19))
                       /\ back = InstantOf(v, tz)
                       /\ toMySQLDateTime(JsDate(back.days, back.sod, 0), tz).val = d

(***************************************************************************)
(* Properties of the envelopes of run() and all().                         *)
(***************************************************************************)
\* the field names of an envelope, at the top level and inside meta
Shape(e) == <<DOMAIN e, DOMAIN e.meta>>

\* rec[name] in JavaScript: undefined when the object has no such field
Field(rec, name) == IF name \in DOMAIN rec THEN rec[name] ELSE JsUndefined

\* const insertedId = result.meta.last_row_id || result.meta.last_insert_rowid
InsertedId(e) == Or(Field(e.meta, "last_row_id"), Field(e.meta, "last_insert_rowid"))

RunCalls == {k \in DOMAIN envelopes : envelopes[k].method = "run"}

\* C12 (as claimed): the envelope of a call has the field names, at the top
\* level and inside meta, of the envelope that each of the three adapters
\* builds for the same call.
C12_SameEnvelopeShape ==
    \A k \in DOMAIN envelopes :
        \A a \in Adapters :
            Shape(envelopes[k].envelope) =
                Shape(IF envelopes[k].method = "run"
                      THEN RunEnvelope(a, envelopes[k].result)
                      ELSE AllEnvelope(a, envelopes[k].result.rows))

\* C13 (as claimed): the envelope of run() on an INSERT carries the id that
\* the engine gave to the new row, and right after the call the row with that
\* id is the row that was inserted.
C13_InsertedIdIsTheRow ==
    \A k \in RunCalls :
        envelopes[k].st.kind \in InsertKinds =>
            /\ InsertedId(envelopes[k].envelope) = JsNum(envelopes[k].result.insertId)
            /\ k = Len(envelopes) =>
                 SelectById(items, InsertedId(envelopes[k].envelope).n)
                     = <<[id |-> envelopes[k].result.insertId,
                          title |-> envelopes[k].st.title]>>

\* C14 (as claimed): an envelope of run() has no rows; it carries an inserted
\* id only when the statement was an INSERT; when the driver reports no id
\* (insertId 0 on MySQL, no returned row on PostgreSQL) it carries none.
C14_EnvelopeInvariant ==
    \A k \in RunCalls :
        /\ "results" \notin DOMAIN envelopes[k].envelope
        /\ ~Falsy(InsertedId(envelopes[k].envelope)) => envelopes[k].st.kind \in InsertKinds
        /\ ( \/ runAdapter = "mysql" /\ envelopes[k].result.insertId = 0
             \/ runAdapter = "postgres" /\ envelopes[k].result.rows = <<>> )
           => Falsy(InsertedId(envelopes[k].envelope))

(***************************************************************************)
(* Properties of the dialect translator.                                   *)
(***************************************************************************)
\* the names of the columns of the file that satisfy a test on the declaration
TextColumnNames(m) == {col[1] : col \in {c \in Range(Columns(m)) : c[2] = "TEXT"}}
UniqueTextColumnNames(m) ==
    {col[1] : col \in {c \in Range(Columns(m)) : c[2] = "TEXT" /\ "UNIQUE" \in Range(c)}}

\* the text holds the tokens of pat at position p
HoldsAt(toks, p, pat) == StartsWith(DropN(toks, p - 1), pat)
Holds(toks, pat) == \E p \in DOMAIN toks : HoldsAt(toks, p, pat)

\* the definition of column c in the text carries the keyword UNIQUE
DeclaredUnique(toks, c) ==
    \E p \in DOMAIN toks :
        /\ toks[p] = c /\ At(toks, p + 1) = "TEXT"
        /\ \E q \in (p + 2)..Len(toks) :
              /\ toks[q] = "UNIQUE"
              /\ \A j \in (p + 2)..(q - 1) : toks[j] \notin {",", ")", ";"}

\* the positions of the statements CREATE UNIQUE INDEX <name> ON <tableName>(<c>(<length>))
UniqueIndexesOn(toks, tableName, c) ==
    {p \in DOMAIN toks :
        /\ HoldsAt(toks, p, <<"CREATE", "UNIQUE", "INDEX">>)
        /\ IsWord(At(toks, p + 3))
        /\ HoldsAt(toks, p + 4, <<"ON", tableName>>)
        /\ AfterOpen(toks, p + 6) > 0
        /\ At(toks, AfterOpen(toks, p + 6)) = c
        /\ At(toks, AfterOpen(toks, p + 6) + 1) = "("
        /\ IsWord(At(toks, AfterOpen(toks, p + 6) + 2))
        /\ HoldsAt(toks, AfterOpen(toks, p + 6) + 3, <<")", ")">>)}

\* the text holds CREATE UNIQUE INDEX <name> ON <tableName>(<cols>), the TEXT
\* columns among cols carrying a prefix length
UniqueIndexOver(toks, tableName, cols, names) ==
    \E p \in DOMAIN toks :
        /\ HoldsAt(toks, p, <<"CREATE", "UNIQUE", "INDEX">>)
        /\ IsWord(At(toks, p + 3))
        /\ HoldsAt(toks, p + 4, <<"ON", tableName>>)
        /\ AfterOpen(toks, p + 6) > 0
        /\ HoldsAt(toks, AfterOpen(toks, p + 6),
                   Joined([k \in DOMAIN cols |-> WithKeyLength(<<cols[k]>>, names)]) \o <<")">>)

\* C19: on MySQL an inline multi-column UNIQUE(...) clause of a CREATE TABLE
\* that names a TEXT column is removed from the table and replaced by a
\* CREATE UNIQUE INDEX over the same columns with a prefix length on each
\* TEXT column; a clause that names no TEXT column is left in place.
C19_UniqueClauseBecomesIndex ==
    (translated /\ isMySQL(env) /\ migration.table /\ migration.unique # <<>>) =>
        IF \E k \in DOMAIN migration.unique : migration.unique[k] \in TextColumnNames(migration)
        THEN /\ ~Holds(sql, <<"UNIQUE">> \o NameList(migration.unique))
             /\ UniqueIndexOver(sql, "tasks", migration.unique, TextColumnNames(migration))
        ELSE Holds(sql, <<"UNIQUE">> \o NameList(migration.unique))

\* C20: on MySQL every column declared TEXT ... UNIQUE in a CREATE TABLE ends
\* up without the keyword UNIQUE in its definition and with exactly one
\* UNIQUE INDEX on that column with a prefix length, whatever other columns
\* and indexes the file declares on the table.
C20_UniqueTextColumnIndexed ==
    (translated /\ isMySQL(env) /\ migration.table) =>
        \A c \in UniqueTextColumnNames(migration) :
            /\ ~DeclaredUnique(sql, c)
            /\ Cardinality(UniqueIndexesOn(sql, "tasks", c)) = 1

\* the text without the marks of white space
Unspaced(toks) == SelectSeq(toks, LAMBDA t : t # " ")

\* the index of the file is in the text with exactly the columns cols
IndexOver(toks, cols) ==
    Holds(Unspaced(toks), <<"idx_tasks_lookup", "ON", "tasks", "(">> \o Joined(cols) \o <<")">>)

\* C21: on MySQL every CREATE INDEX statement of a migration has a prefix
\* length on each column that is declared TEXT in its table and none on the
\* other columns, whether the table is created in the same file or in an
\* earlier one.
C21_IndexKeyLengths ==
    (translated /\ isMySQL(env) /\ migration.index # <<>>) =>
        IndexOver(sql, [k \in DOMAIN migration.index |->
                          WithKeyLength(<<migration.index[k]>>, TextColumnNames(migration))])

\* the tuples of the INSERT statement of the files
InsertColumns == <<"(", "id", ",", "title", ")">>
InsertValues == <<"(", "1", ",", "'todo'", ")">>

\* C23: INSERT OR IGNORE INTO t (cols) VALUES (vals) becomes INSERT IGNORE INTO
\* t (cols) VALUES (vals) on MySQL and INSERT INTO t (cols) VALUES (vals) ON
\* CONFLICT DO NOTHING on PostgreSQL, the conflict clause after the complete
\* tuple of values; on SQLite the statement is unchanged.
C23_InsertIgnoreTranslated ==
    (translated /\ migration.insert # <<>>) =>
        Holds(Unspaced(sql),
              IF SelectAdapter(env) = "mysql"
              THEN <<"INSERT", "IGNORE", "INTO", "tasks">> \o InsertColumns
                   \o <<"VALUES">> \o InsertValues \o <<";">>
              ELSE IF SelectAdapter(env) = "postgres"
              THEN <<"INSERT", "INTO", "tasks">> \o InsertColumns \o <<"VALUES">> \o InsertValues
                   \o <<"ON", "CONFLICT", "DO", "NOTHING", ";">>
              ELSE Unspaced(InsertIgnore))

\* the definition of a column of type TEXT that starts at position p carries
\* a DEFAULT clause
TextDefaultAt(toks, p) ==
    /\ IsWord(toks[p]) /\ At(toks, p + 1) = "TEXT"
    /\ \E q \in (p + 2)..Len(toks) :
          /\ toks[q] = "DEFAULT"
          /\ \A j \in (p + 2)..(q - 1) : toks[j] \notin {",", ")", ";"}

\* the DEFAULT clauses of the columns of the file that are not of type TEXT
OtherDefaults(m) ==
    IF m.alter # <<>> /\ m.alter[7] # "TEXT" THEN {SubSeq(m.alter, 7, 9)} ELSE {}

\* C25: on MySQL no definition of a TEXT column, in CREATE TABLE or in ALTER
\* TABLE ... ADD COLUMN, keeps a DEFAULT clause after translation, whatever
\* the form of the default value, and the DEFAULT clauses of the other
\* columns are unchanged.
C25_TextDefaultsRemoved ==
    (translated /\ isMySQL(env)) =>
        /\ \A p \in DOMAIN sql : ~TextDefaultAt(sql, p)
        /\ \A clause \in OtherDefaults(migration) : Holds(sql, clause)

\* the statements CREATE <what> of the text carry IF NOT EXISTS `times` times
Qualified(toks, what, times) ==
    \A p \in DOMAIN toks :
        HoldsAt(toks, p, <<"CREATE">> \o what) =>
            /\ (times >= 1) = HoldsAt(toks, p + 1 + Len(what), <<"IF", "NOT", "EXISTS">>)
            /\ (times >= 2) = HoldsAt(toks, p + 4 + Len(what), <<"IF", "NOT", "EXISTS">>)

\* C24: after translation every CREATE TABLE statement carries IF NOT EXISTS
\* exactly once, also when the file already had it; so does every CREATE
\* INDEX statement on SQLite and PostgreSQL, while on MySQL CREATE INDEX
\* carries no such qualifier.
C24_IfNotExistsOnce ==
    translated =>
        /\ Qualified(sql, <<"TABLE">>, 1)
        /\ Qualified(sql, <<"INDEX">>, IF SelectAdapter(env) = "mysql" THEN 0 ELSE 1)

\* the names of the columns of the files that are reserved words of an
\* engine: ORDER of all three, REPEAT of MySQL
EngineReserved(adapter) == IF adapter = "mysql" THEN {"repeat", "order"} ELSE {"order"}

\* the characters in which an engine accepts a quoted name
EngineQuotes(adapter) ==
    IF adapter = "mysql" THEN {BackQuote}
    ELSE IF adapter = "postgres" THEN {"\""}
    ELSE {BackQuote, "\""}

\* C22: the column added by ALTER TABLE t ADD COLUMN c ... is quoted for the
\* engine in the translated text when c is a reserved word of the engine, on
\* SQLite, MySQL and PostgreSQL, and is left unquoted when it is not.
C22_ReservedColumnQuoted ==
    (translated /\ migration.alter # <<>>) =>
        IF migration.alter[6] \in EngineReserved(SelectAdapter(env))
        THEN \E q \in EngineQuotes(SelectAdapter(env)) :
                Holds(sql, <<"ADD", "COLUMN", q, migration.alter[6], q>>)
        ELSE Holds(sql, <<"ADD", "COLUMN", migration.alter[6]>>)

(***************************************************************************)
(* Properties of applying a translated file.                               *)
(***************************************************************************)
\* C27: on MySQL no run of the runner ends with the duplicate-column error
\* (ER_DUP_FIELDNAME) of an ALTER TABLE ... ADD COLUMN statement: the error is
\* skipped for every such statement as it is executed after the translation,
\* also when the translator back-quoted the column name, and the file can
\* still be recorded.
C27_DuplicateColumnSkipped == isMySQL(env) => failure # "ER_DUP_FIELDNAME"

\* C28: on MySQL no run of the runner ends with the duplicate key name error
\* (ER_DUP_KEYNAME) of an index-creating statement, the CREATE UNIQUE INDEX
\* statements that the translator emits included.
C28_DuplicateIndexSkipped == isMySQL(env) => failure # "ER_DUP_KEYNAME"

(***************************************************************************)
(* Properties of exec.                                                     *)
(***************************************************************************)
\* the semicolon at position i of the text stands inside a string literal
InLiteral(query, i) == Count(query, i - 1, OpenQuote) > Count(query, i - 1, CloseQuote)

Masked(query) ==
    [i \in DOMAIN query |-> IF query[i] = ";" /\ InLiteral(query, i) THEN "';'" ELSE query[i]]

Unmasked(text) == [i \in DOMAIN text |-> IF text[i] = "';'" THEN ";" ELSE text[i]]

\* the non-empty statements of an SQL text: a statement ends at a semicolon
\* that is not part of a string literal
SqlStatements(query) ==
    [k \in DOMAIN statementsOf(Masked(query)) |-> Unmasked(statementsOf(Masked(query))[k])]

\* the statements before the first statement that the engine rejects
RECURSIVE Accepted(_)
Accepted(stmtsLeft) ==
    IF stmtsLeft = <<>> THEN <<>>
    ELSE IF Answer(Head(stmtsLeft)) # "" THEN <<>>
    ELSE <<Head(stmtsLeft)>> \o Accepted(Tail(stmtsLeft))

IsPrefix(s, t) == Len(s) <= Len(t) /\ SubSeq(t, 1, Len(s)) = s

\* what the engine has applied for call c, in the order of the history
RECURSIVE AppliedFor(_, _)
AppliedFor(c, history) ==
    IF history = <<>> THEN <<>>
    ELSE (IF Head(history)[1] = c THEN <<Head(history)[2]>> ELSE <<>>)
         \o AppliedFor(c, Tail(history))

ExecContract(one, mine, expected, good) ==
    /\ IsPrefix(mine, good)
    /\ one.state = "returned" => mine = expected
    /\ (one.state = "raised" /\ one.error # "ECONNREFUSED") =>
          /\ Len(good) < Len(expected)
          /\ mine = good
          /\ one.error = Answer(expected[Len(good) + 1])

\* C26: on every adapter the engine applies, for each call exec(sql), the
\* non-empty statements of sql one at a time in the order of the text; when
\* exec has returned all of them are applied; when exec has raised, statement
\* k is the first that fails, the error is the error of statement k,
\* statements 1..k-1 are applied and stay applied, and nothing after k is applied.
C26_ExecSequential ==
    /\ [](\A c \in DOMAIN calls :
             ExecContract(calls[c], AppliedFor(c, applied), SqlStatements(calls[c].query),
                          Accepted(SqlStatements(calls[c].query))))
    /\ [][IsPrefix(applied, applied')]_vars

\* C30: MysqlD1Database.exec releases the connection it acquired exactly once
\* on every path: the connections checked out are those of the calls that are
\* between getConnection and the end of their try block, no call releases
\* more often than it acquired, and a call that has returned or raised has
\* released what it acquired.
C30_ConnectionReleasedOnce ==
    execAdapter = "mysql" =>
        /\ pool = Cardinality({c \in DOMAIN calls : calls[c].state = "running"})
        /\ \A c \in DOMAIN calls :
              /\ calls[c].released <= calls[c].acquired
              /\ calls[c].state \in {"returned", "raised"} =>
                    calls[c].released = calls[c].acquired

\* two calls on MySQL have ended, one of them because its second statement
\* failed, one by returning, and no connection is checked out
C30_Witness ==
    /\ execAdapter = "mysql"
    /\ pool = 0
    /\ \E c, d \in DOMAIN calls :
          /\ calls[c].state = "raised" /\ calls[c].at = 1 /\ calls[c].released = 1
          /\ calls[d].state = "returned" /\ calls[d].at = 2 /\ calls[d].released = 1

(***************************************************************************)
(* Properties of the choice of the engine.                                 *)
(***************************************************************************)
Chosen(now, next) == now # "" => next = now

\* C29: for every combination of DB_TYPE, DB_USER, DB_PASSWORD, DB_NAME and
\* DATABASE_URL the migration runner and the server select the same engine,
\* the dialect of the runner's bookkeeping DDL and of its translation is the
\* dialect of the adapter it constructed, and no selection changes once made.
C29_SameEngine ==
    /\ []((serverDb # "" /\ runnerDb # "") => serverDb = runnerDb)
    /\ [](ddlDialect # "" => ddlDialect = runnerDb)
    /\ [](sqlDialect # "" => sqlDialect = runnerDb)
    /\ [][/\ Chosen(serverDb, serverDb') /\ Chosen(runnerDb, runnerDb')
          /\ Chosen(ddlDialect, ddlDialect') /\ Chosen(sqlDialect, sqlDialect')
          /\ config' = config]_vars

====
